---------------------------- MODULE Spec2Model ----------------------------
(* State-machine model of aws-secretsmanager-caching-python:                *)
(*   cache/lru.py     LRUCache (dict + intrusive doubly linked list)        *)
(*   cache/items.py   SecretCacheObject / SecretCacheItem / SecretCacheVersion *)
(*   secret_cache.py  SecretCache facade                                    *)
(*   config.py        SecretCacheConfig                                     *)
(*   decorators.py    InjectSecretAbstract._get_cached_secret               *)
(* Python's None is modelled as 0 for node/key references and as the empty  *)
(* sequence for optional values (Some(v) is the one-element sequence).      *)
EXTENDS Integers, Sequences, FiniteSets, TLC

\* ---------------------------------------------------------------- bounds
MaxKey == 3
MaxCap == 2

Keys == 1..MaxKey
Data == {"a", "b"}
Capacities == 0..MaxCap

NoKey == 0
None == <<>>
Some(v) == <<v>>

VARIABLES
    lru,        \* the LRUCache instance under test in SpecLRU
    lru_last,   \* the last completed LRUCache call: operation, key, result, pre-state
    touched,    \* history: keys ordered by their last successful get or insertion, newest first
    config,     \* the SecretCacheConfig the SecretCache was built with
    now,        \* datetime.utcnow(), in milliseconds
    backend,    \* the secret's metadata as the backend holds it (what describe_secret answers)
    cache,      \* SecretCache._cache: LRUCache of secret id -> reference of a SecretCacheItem
    last,       \* the call that ended in the last step, and what was observed of it
    hist,       \* history per cache object, kept from its construction
    threads,    \* per thread: where it is in its call, its locals, and what was observed
    heap,       \* the cache objects, by reference: their fields and the owners of their locks
    built,      \* the last SecretCacheConfig(**kwargs) call: its arguments and its outcome
    callers,    \* the threads inside LRUCache methods: SpecLRUThreads, and the lock of SecretCache._cache
    inject      \* an InjectSecretAbstract decorator object and its last _get_cached_secret call

lruVars == <<lru, lru_last, touched>>
secretVars == <<config, now, backend, cache, last, hist>>
threadVars == <<threads, heap>>
auxVars == <<built, callers, inject>>
vars == <<lru, lru_last, touched, config, now, backend, cache, last, hist, threads, heap,
          built, callers, inject>>

\* ------------------------------------------------------------ cache/lru.py
\* LRUCache.__init__: empty dict, head = tail = None, size 0.
\* "cache" maps each key of self._cache to the data of its LRUItem; the
\* LRUItem of key k is identified by k; "next"/"prev" are the items' links.
LRUCache(max_size) ==
    [max_size |-> max_size, cache |-> <<>>, head |-> NoKey, tail |-> NoKey,
     size |-> 0, next |-> <<>>, prev |-> <<>>]

\* The operators below follow the statements of the methods one by one.
\* "x \in {e}" names the value of e after a statement; Only takes the result
\* out of the one-element set this builds.
Only(S) == CHOOSE x \in S : TRUE

\* mutant of _unlink: the head and tail references are not moved off the item
_unlink_keep_ends(c, item) ==
    Only({ [c4 EXCEPT !.next[item] = NoKey, !.prev[item] = NoKey] :
      c4 \in { IF c3.next[item] # NoKey
                 THEN [c3 EXCEPT !.prev[c3.next[item]] = c3.prev[item]] ELSE c3 :
      c3 \in { IF c.prev[item] # NoKey
                 THEN [c EXCEPT !.next[c.prev[item]] = c.next[item]] ELSE c } } })

\* LRUCache._unlink
_unlink(c, item) ==
    Only({ [c4 EXCEPT !.next[item] = NoKey, !.prev[item] = NoKey] :
      c4 \in { IF c3.next[item] # NoKey
                 THEN [c3 EXCEPT !.prev[c3.next[item]] = c3.prev[item]] ELSE c3 :
      c3 \in { IF c2.prev[item] # NoKey
                 THEN [c2 EXCEPT !.next[c2.prev[item]] = c2.next[item]] ELSE c2 :
      c2 \in { IF item = c1.tail THEN [c1 EXCEPT !.tail = c1.prev[item]] ELSE c1 :
      c1 \in { IF item = c.head THEN [c EXCEPT !.head = c.next[item]] ELSE c } } } } })

\* mutant of _update_head: an item that is already linked is left where it is
_update_head_new_only(c, item) ==
    IF item = c.head \/ c.prev[item] # NoKey THEN c
    ELSE Only({ IF d.tail = NoKey THEN [d EXCEPT !.tail = item] ELSE d :
           d \in { [b EXCEPT !.head = item] :
           b \in { IF a.head # NoKey THEN [a EXCEPT !.prev[a.head] = item] ELSE a :
           a \in { [c EXCEPT !.next[item] = c.head] } } } })

\* LRUCache._update_head
_update_head(c, item) ==
    IF item = c.head THEN c
    ELSE Only({ IF d.tail = NoKey THEN [d EXCEPT !.tail = item] ELSE d :
           d \in { [b EXCEPT !.head = item] :
           b \in { IF a.head # NoKey THEN [a EXCEPT !.prev[a.head] = item] ELSE a :
           a \in { [u EXCEPT !.next[item] = u.head] :
           u \in { _unlink(c, item) } } } } })

\* mutant of get: the item read is not moved to the head
get_no_promote(c, key) ==
    IF key \notin DOMAIN c.cache THEN [c |-> c, ret |-> None]
    ELSE [c |-> c, ret |-> Some(c.cache[key])]

\* LRUCache.get: [c |-> cache afterwards, ret |-> None or Some(data)]
get(c, key) ==
    IF key \notin DOMAIN c.cache THEN [c |-> c, ret |-> None]
    ELSE [c |-> _update_head(c, key), ret |-> Some(c.cache[key])]

\* del self._cache[k]; the unlinked LRUItem is garbage afterwards
Without(f, k) == [x \in (DOMAIN f) \ {k} |-> f[x]]

\* mutant of evict: the size test is off by one
evict_off_by_one(c) ==
    IF c.size > c.max_size + 1
      THEN Only({ [u EXCEPT !.size = u.size - 1,
                            !.next = Without(u.next, c.tail),
                            !.prev = Without(u.prev, c.tail)] :
             u \in { _unlink(d, c.tail) :
             d \in { [c EXCEPT !.cache = Without(c.cache, c.tail)] } } })
      ELSE c

\* the "if self._size > self._max_size" block of put_if_absent
\* (lru.py lines 69-72): drop the tail's key, unlink the tail, decrement size
evict(c) ==
    IF c.size > c.max_size
      THEN Only({ [u EXCEPT !.size = u.size - 1,
                            !.next = Without(u.next, c.tail),
                            !.prev = Without(u.prev, c.tail)] :
             u \in { _unlink(d, c.tail) :
             d \in { [c EXCEPT !.cache = Without(c.cache, c.tail)] } } })
      ELSE c

\* mutant of put_if_absent: the data of a present key is replaced
put_if_absent_overwrite(c, key, data) ==
    IF key \in DOMAIN c.cache
      THEN [c |-> [c EXCEPT !.cache[key] = data], ret |-> TRUE]
    ELSE Only({ [c |-> evict(b), ret |-> TRUE] :
           b \in { _update_head(a, key) :
           a \in { [c EXCEPT !.cache = c.cache @@ (key :> data),
                             !.next = c.next @@ (key :> NoKey),
                             !.prev = c.prev @@ (key :> NoKey),
                             !.size = c.size + 1] } } })

\* mutant of put_if_absent: a present key is promoted to the head
put_if_absent_promote(c, key, data) ==
    IF key \in DOMAIN c.cache THEN [c |-> _update_head(c, key), ret |-> FALSE]
    ELSE Only({ [c |-> evict(b), ret |-> TRUE] :
           b \in { _update_head(a, key) :
           a \in { [c EXCEPT !.cache = c.cache @@ (key :> data),
                             !.next = c.next @@ (key :> NoKey),
                             !.prev = c.prev @@ (key :> NoKey),
                             !.size = c.size + 1] } } })

\* LRUCache.put_if_absent: [c |-> cache afterwards, ret |-> BOOLEAN]
put_if_absent(c, key, data) ==
    IF key \in DOMAIN c.cache THEN [c |-> c, ret |-> FALSE]
    ELSE Only({ [c |-> evict(b), ret |-> TRUE] :
           b \in { _update_head(a, key) :
           a \in { [c EXCEPT !.cache = c.cache @@ (key :> data),
                             !.next = c.next @@ (key :> NoKey),
                             !.prev = c.prev @@ (key :> NoKey),
                             !.size = c.size + 1] } } })

\* --------------------------------------------------------------- config.py
\* SecretCacheConfig.OPTION_DEFAULTS (the interval is 3600 seconds)
OPTION_DEFAULTS ==
    [max_cache_size |-> 1024,
     exception_retry_delay_base |-> 1,
     exception_retry_growth_factor |-> 2,
     exception_retry_delay_max |-> 3600,
     default_version_stage |-> "AWSCURRENT",
     secret_refresh_interval |-> 3600]

OptionNames == DOMAIN OPTION_DEFAULTS

\* SecretCacheConfig.__init__(**kwargs): kwargs is a function from the names
\* given to their values.  An unknown name raises TypeError (no object);
\* otherwise the object has exactly the attributes of OPTION_DEFAULTS.
SecretCacheConfig(kwargs) ==
    IF \E key \in DOMAIN kwargs : key \notin OptionNames
      THEN [raised |-> "TypeError", attrs |-> None]
      ELSE [raised |-> "",
            attrs |-> Some([key \in OptionNames |->
                              IF key \in DOMAIN kwargs THEN kwargs[key]
                              ELSE OPTION_DEFAULTS[key]])]

\* The attribute secret_cache_hook that items.py reads is not among the
\* options, so no constructed configuration has it ("unset").  A caller can
\* still assign it on the object: None ("none") or a hook object ("hook").
HookUnset == "unset"
HookNone == "none"
HookObject == "hook"
HookAttrs == {HookUnset, HookNone, HookObject}

\* the keyword arguments the model constructs configurations from
KwNoCache == [max_cache_size |-> 0, secret_refresh_interval |-> 2]
KwSlow ==
    [max_cache_size |-> 1, exception_retry_delay_base |-> 500,
     exception_retry_delay_max |-> 1500, secret_refresh_interval |-> 2]
KwOdd ==
    [max_cache_size |-> 1, exception_retry_delay_base |-> 500,
     exception_retry_growth_factor |-> 3, exception_retry_delay_max |-> 1000,
     secret_refresh_interval |-> 1, default_version_stage |-> "AWSPREVIOUS"]

KwTwo ==
    [max_cache_size |-> 2, exception_retry_delay_base |-> 500,
     exception_retry_delay_max |-> 1500, secret_refresh_interval |-> 2]
KwFast ==
    [exception_retry_delay_base |-> 100, exception_retry_growth_factor |-> 3,
     exception_retry_delay_max |-> 1000, secret_refresh_interval |-> 1]

\* a configuration object: its option attributes and the hook attribute
Config(kw, h) == [opt |-> SecretCacheConfig(kw).attrs[1], secret_cache_hook |-> h]
Configs ==
    { Config(KwNoCache, HookUnset), Config(KwSlow, HookUnset),
      Config(KwOdd, HookNone), Config(KwOdd, HookObject) }

\* the configurations of the SecretCache specification: no cache, a cache of
\* one item and a cache of two, without and with a hook
CacheConfigs ==
    { Config(KwNoCache, HookUnset), Config(KwSlow, HookUnset), Config(KwTwo, HookObject) }

\* the configurations of the one item specification
ItemConfigs ==
    { Config(KwSlow, HookUnset), Config(KwOdd, HookNone), Config(KwFast, HookObject) }

\* ------------------------------------------------------------ the backend
\* timedelta(seconds=1) in milliseconds, the unit of the model's clock
SecondMs == 1000

\* the clock advances by seconds, MaxTicks times at most
MaxTicks == 1
TimeStep == SecondMs
MaxTime == MaxTicks * TimeStep

SecretIds == {1, 2}
VersionIds == {1, 2}
Stages == {"AWSCURRENT", "AWSPREVIOUS"}
\* a version_stage argument: "" stands for None (not given)
StageArgs == {"", "AWSPREVIOUS"}

\* describe_secret responses: {} ; {"Name": ..} ; {"VersionIdsToStages": ..}.
\* The version map is a sequence of <<version id, stages>> in dict order.
Meta(name, versions) == [Name |-> name, VersionIdsToStages |-> versions]
MetaEmpty == Meta(None, None)
MetaNoVersions == Meta(Some("test"), None)
MetaV1Current == Meta(None, Some(<< <<1, {"AWSCURRENT"}>> >>))
MetaV2Current == Meta(None, Some(<< <<1, {"AWSPREVIOUS"}>>, <<2, {"AWSCURRENT"}>> >>))
Metas == {MetaEmpty, MetaNoVersions, MetaV1Current, MetaV2Current}
ItemMetas == {MetaV1Current}
NextMeta(m) ==
    IF m = MetaEmpty THEN MetaNoVersions
    ELSE IF m = MetaNoVersions THEN MetaV1Current
    ELSE IF m = MetaV1Current THEN MetaV2Current
    ELSE MetaEmpty

\* get_secret_value responses by version id: a string secret, a binary secret
Payload(str, bin) == [SecretString |-> str, SecretBinary |-> bin]
BackendPayload(version_id) ==
    IF version_id = 1 THEN Payload(Some(<<"s1">>), None)
    ELSE Payload(None, Some(<<"b2">>))

\* the client as one call sees it: the metadata the backend holds and
\* whether describe_secret / get_secret_value succeed during that call
Client(meta, describe_ok, get_ok) ==
    [meta |-> meta, describe_ok |-> describe_ok, get_ok |-> get_ok]

ClientError == "ClientError"

\* Python truthiness of a dict / of an optional dict
EmptyDict(d) == \A f \in DOMAIN d : d[f] = None
Falsy(v) == v = None \/ EmptyDict(v[1])

\* a SecretCacheHook as in test/unit/test_cache_hook.py: put marks the secret
\* fields of the object it is given and keeps it, get marks the secret fields
\* of the object it keeps and returns it, so the marks of the reads add up.
\* The key put returns stands for the object kept under it
Mark(obj, m) ==
    [f \in DOMAIN obj |->
        IF f \in {"SecretString", "SecretBinary"} /\ obj[f] # None
          THEN Some(Append(obj[f][1], m)) ELSE obj[f]]
HookPut(obj) == Mark(obj, "+hook_put")
HookGet(cached_obj) == Mark(cached_obj, "+hook_get")

\* ----------------------------------------------------------- cache/items.py
\* Names with two leading underscores are stored under the name of the class
\* whose body defines them: __refresh, __get_result and __set_result are
\* attributes _SecretCacheObject__refresh, ... .  A reference self.__name
\* written in the body of class cls looks up _cls__name.
PrivateMethods ==
    { <<"SecretCacheObject", "__refresh">>,
      <<"SecretCacheObject", "__get_result">>,
      <<"SecretCacheObject", "__set_result">> }
HasPrivate(cls, name) == <<cls, name>> \in PrivateMethods

AttributeErrorHook == "AttributeError: 'SecretCacheConfig' object has no attribute 'secret_cache_hook'"
AttributeErrorPut == "AttributeError: 'NoneType' object has no attribute 'put'"
AttributeErrorItemResult == "AttributeError: 'SecretCacheItem' object has no attribute '_SecretCacheItem__get_result'"
AttributeErrorVersionResult == "AttributeError: 'SecretCacheVersion' object has no attribute '_SecretCacheVersion__get_result'"
AttributeErrorNoItem == "AttributeError: 'NoneType' object has no attribute 'get_secret_value'"
AttributeErrorNoRefresh == "AttributeError: 'NoneType' object has no attribute 'refresh_secret_now'"
AttributeErrorItemNoRefresh == "AttributeError: 'SecretCacheItem' object has no attribute 'refresh_secret_now'"

\* the capacity of SecretCacheItem._versions
VersionCacheSize == 10

\* SecretCacheObject.__init__ (fields shared by items and versions)
SecretCacheObject ==
    [result |-> None, exception |-> None, exception_count |-> 0,
     refresh_needed |-> TRUE, next_retry_time |-> None]

\* SecretCacheVersion.__init__
SecretCacheVersion(version_id) ==
    [result |-> None, exception |-> None, exception_count |-> 0,
     refresh_needed |-> TRUE, next_retry_time |-> None,
     version_id |-> version_id]

\* SecretCacheItem.__init__ at time t
SecretCacheItem(t) ==
    [result |-> None, exception |-> None, exception_count |-> 0,
     refresh_needed |-> TRUE, next_retry_time |-> None,
     versions |-> LRUCache(VersionCacheSize), next_refresh_time |-> t]

IsItem(e) == "versions" \in DOMAIN e

\* SecretCacheObject._is_refresh_needed
SecretCacheObject_is_refresh_needed(e, t) ==
    IF e.refresh_needed THEN TRUE
    ELSE IF e.exception = None THEN FALSE
    ELSE IF e.next_retry_time = None THEN FALSE
    ELSE e.next_retry_time[1] <= t

\* mutant of SecretCacheItem._is_refresh_needed: the scheduled refresh time
\* is looked at whether or not an exception is stored
SecretCacheItem_is_refresh_needed_schedule_always(e, t) ==
    IF SecretCacheObject_is_refresh_needed(e, t) THEN TRUE
    ELSE e.next_refresh_time <= t

\* mutant of SecretCacheItem._is_refresh_needed: the item is due only after
\* its scheduled refresh time
SecretCacheItem_is_refresh_needed_strict(e, t) ==
    IF SecretCacheObject_is_refresh_needed(e, t) THEN TRUE
    ELSE IF e.exception # None THEN FALSE
    ELSE e.next_refresh_time < t

\* SecretCacheItem._is_refresh_needed
SecretCacheItem_is_refresh_needed(e, t) ==
    IF SecretCacheObject_is_refresh_needed(e, t) THEN TRUE
    ELSE IF e.exception # None THEN FALSE
    ELSE e.next_refresh_time <= t

_is_refresh_needed(e, t) ==
    IF IsItem(e) THEN SecretCacheItem_is_refresh_needed(e, t)
    ELSE SecretCacheObject_is_refresh_needed(e, t)

\* Python round(ttl / 2): halves round to the even neighbour
RoundHalf(ttl) ==
    IF ttl % 2 = 0 THEN ttl \div 2
    ELSE IF (ttl \div 2) % 2 = 0 THEN ttl \div 2 ELSE ttl \div 2 + 1

\* the values randint(round(ttl / 2), ttl) can return
Jitter(cfg) == RoundHalf(cfg.opt.secret_refresh_interval)..cfg.opt.secret_refresh_interval

\* SecretCacheItem._execute_refresh after describe_secret has answered: the
\* next refresh time from the clock t as it reads then and the number j that
\* randint(round(ttl / 2), ttl) returned
set_next_refresh_time(e, t, j) == [e EXCEPT !.next_refresh_time = t + j * SecondMs]

\* SecretCacheItem._execute_refresh: describe_secret of the client b, then
\* the next refresh time.  [e, raised, result, io]; io lists the backend
\* calls made as <<operation, succeeded>>
SecretCacheItem_execute_refresh(b, e, t, j) ==
    IF ~b.describe_ok
      THEN [e |-> e, raised |-> Some(ClientError), result |-> None,
            io |-> << <<"describe_secret", FALSE>> >>]
      ELSE [e |-> set_next_refresh_time(e, t, j),
            raised |-> None, result |-> Some(b.meta),
            io |-> << <<"describe_secret", TRUE>> >>]

\* SecretCacheVersion._execute_refresh: get_secret_value of the version
SecretCacheVersion_execute_refresh(b, e) ==
    IF ~b.get_ok
      THEN [e |-> e, raised |-> Some(ClientError), result |-> None,
            io |-> << <<"get_secret_value", FALSE>> >>]
      ELSE [e |-> e, raised |-> None, result |-> Some(BackendPayload(e.version_id)),
            io |-> << <<"get_secret_value", TRUE>> >>]

_execute_refresh(b, e, t, j) ==
    IF IsItem(e) THEN SecretCacheItem_execute_refresh(b, e, t, j)
    ELSE SecretCacheVersion_execute_refresh(b, e)

\* SecretCacheObject.__set_result: reading config.secret_cache_hook raises
\* when the attribute is unset; when it is None the result is stored and the
\* statement after the if, None.put(result), raises.  [e, raised]
set_result(cfg, e, result) ==
    IF cfg.secret_cache_hook = HookUnset
      THEN [e |-> e, raised |-> Some(AttributeErrorHook)]
    ELSE IF cfg.secret_cache_hook = HookNone
      THEN [e |-> [e EXCEPT !.result = result], raised |-> Some(AttributeErrorPut)]
    ELSE [e |-> [e EXCEPT !.result = Some(HookPut(result[1]))], raised |-> None]

\* SecretCacheObject.__get_result.  [e, raised, value]: with a hook the
\* object the hook keeps for the result is the one hook.get has marked
get_result(cfg, e) ==
    IF cfg.secret_cache_hook = HookUnset
      THEN [e |-> e, raised |-> Some(AttributeErrorHook), value |-> None]
    ELSE IF cfg.secret_cache_hook = HookNone
      THEN [e |-> e, raised |-> None, value |-> e.result]
    ELSE IF e.result = None
      THEN [e |-> e, raised |-> Some("KeyError"), value |-> None]
    ELSE [e |-> [e EXCEPT !.result = Some(HookGet(e.result[1]))],
          raised |-> None, value |-> Some(HookGet(e.result[1]))]

Min(a, b) == IF a <= b THEN a ELSE b

\* the statements of SecretCacheObject.__refresh, one operator each.
\* self._refresh_needed = False
clear_refresh_needed(e) == [e EXCEPT !.refresh_needed = FALSE]

\* self._exception = None
clear_exception(e) == [e EXCEPT !.exception = None]

\* mutant of reset_exception_count: a success leaves the counter as it was
reset_exception_count_keep(e) == e

\* self._exception_count = 0
reset_exception_count(e) == [e EXCEPT !.exception_count = 0]

\* self._exception = e
store_exception(e, exc) == [e EXCEPT !.exception = exc]

\* mutant of exception_retry_delay: the delay is computed from the counter
\* after its increment
exception_retry_delay_count_first(cfg, e) ==
    cfg.opt.exception_retry_delay_base
      * (cfg.opt.exception_retry_growth_factor ^ (e.exception_count + 1))

\* delay = exception_retry_delay_base
\*           * (exception_retry_growth_factor ** self._exception_count)
exception_retry_delay(cfg, e) ==
    cfg.opt.exception_retry_delay_base
      * (cfg.opt.exception_retry_growth_factor ^ e.exception_count)

\* self._exception_count += 1
count_exception(e) == [e EXCEPT !.exception_count = e.exception_count + 1]

\* delay = min(delay, exception_retry_delay_max);
\* self._next_retry_time = utcnow() + timedelta(milliseconds=delay), the
\* clock reading t
set_next_retry_time(cfg, e, delay, t) ==
    [e EXCEPT !.next_retry_time = Some(t + Min(delay, cfg.opt.exception_retry_delay_max))]

\* the except branch of SecretCacheObject.__refresh as a whole
refresh_failed(cfg, e, exc, t) ==
    set_next_retry_time(cfg, count_exception(store_exception(e, exc)),
                        exception_retry_delay(cfg, e), t)

\* the try block of SecretCacheObject.__refresh: _execute_refresh, then
\* __set_result of what it returned.  [e, raised, io]
refresh_try(cfg, b, e, t, j) ==
    Only({ IF x.raised # None THEN [e |-> x.e, raised |-> x.raised, io |-> x.io]
           ELSE Only({ [e |-> s.e, raised |-> s.raised, io |-> x.io] :
                       s \in { set_result(cfg, x.e, x.result) } }) :
           x \in { _execute_refresh(b, e, t, j) } })

\* SecretCacheObject.__refresh as a whole, as _get_version of an item runs it
\* on a version while the item's lock is held: begun when the clock reads t,
\* the backend call taking d.  [e, io]
refresh(cfg, b, e, t, d, j) ==
    IF ~_is_refresh_needed(e, t) THEN [e |-> e, io |-> <<>>]
    ELSE Only({ IF s.raised = None
                  THEN [e |-> reset_exception_count(clear_exception(s.e)), io |-> s.io]
                  ELSE [e |-> refresh_failed(cfg, s.e, s.raised, t + d), io |-> s.io] :
                s \in { refresh_try(cfg, b, clear_refresh_needed(e), t + d, j) } })

\* SecretCacheItem._get_version_id (static): None or Some(version id)
_get_version_id(result, version_stage) ==
    IF Falsy(result) THEN None
    ELSE IF result[1].VersionIdsToStages = None THEN None
    ELSE Only({ IF ids = <<>> THEN None ELSE Some(ids[1][1]) :
                ids \in { SelectSeq(result[1].VersionIdsToStages[1],
                                    LAMBDA kv : version_stage \in kv[2]) } })

\* what a call hands back: a returned object (None or Some) or a raised
\* exception.  own tells whether the returned object is the caller's alone
\* (None, a string, a copy) and not an object that the cache keeps
Return(v) == [kind |-> "return", value |-> v, exc |-> "", own |-> TRUE]
Raise(x) == [kind |-> "raise", value |-> None, exc |-> x, own |-> TRUE]

\* return of the very object a cache object keeps as its result
ReturnKept(v) == [kind |-> "return", value |-> v, exc |-> "", own |-> v = None]

\* copy.deepcopy(value): an equal object that shares nothing with value
deepcopy(v) == [v EXCEPT !.own = TRUE]

\* SecretCacheVersion._get_version: self.__get_result is looked up as
\* _SecretCacheVersion__get_result.  [e, out]
SecretCacheVersion_get_version(cfg, e) ==
    IF ~HasPrivate("SecretCacheVersion", "__get_result")
      THEN [e |-> e, out |-> Raise(AttributeErrorVersionResult)]
    ELSE Only({ IF r.raised # None THEN [e |-> r.e, out |-> Raise(r.raised[1])]
                ELSE [e |-> r.e, out |-> ReturnKept(r.value)] :
                r \in { get_result(cfg, e) } })

\* the last three lines of SecretCacheObject.get_secret_value, given what
\* _get_version produced: raise the stored exception when there is no value,
\* else return deepcopy(value)
get_secret_value_result(e, v) ==
    IF v.kind = "raise" THEN v
    ELSE IF Falsy(v.value) /\ e.exception # None THEN Raise(e.exception[1])
    ELSE deepcopy(v)

\* SecretCacheObject.get_secret_value on a SecretCacheVersion as a whole, as
\* _get_version of an item calls it while the item's lock is held.  [e, out, io]
SecretCacheVersion_get_secret_value(cfg, b, e, t, d) ==
    Only({ Only({ [e |-> v.e, out |-> get_secret_value_result(v.e, v.out), io |-> r.io] :
                  v \in { SecretCacheVersion_get_version(cfg, r.e) } }) :
           r \in { refresh(cfg, b, e, t, d, 0) } })

\* self._versions.get(version_id), and when that finds nothing,
\* put_if_absent of a new SecretCacheVersion and get again: the version cache
\* afterwards
_get_version_entry(versions, vid) ==
    Only({ IF g.ret # None THEN g.c
           ELSE Only({ get(p.c, vid).c :
                       p \in { put_if_absent(g.c, vid, SecretCacheVersion(vid)) } }) :
           g \in { get(versions, vid) } })

\* the rest of SecretCacheItem._get_version once the version id is known:
\* get_secret_value of the entry of that version.  [e, out, io]
_get_version_value(cfg, b, e, vid, t, d) ==
    Only({ Only({ [e |-> [e EXCEPT !.versions = [p EXCEPT !.cache[vid] = c.e]],
                   out |-> c.out, io |-> c.io] :
                  c \in { SecretCacheVersion_get_secret_value(cfg, b, p.cache[vid], t, d) } }) :
           p \in { _get_version_entry(e.versions, vid) } })

\* SecretCacheItem._get_version: self.__get_result is looked up as
\* _SecretCacheItem__get_result.  [e, out, io]
SecretCacheItem_get_version(cfg, b, e, version_stage, t, d) ==
    IF ~HasPrivate("SecretCacheItem", "__get_result")
      THEN [e |-> e, out |-> Raise(AttributeErrorItemResult), io |-> <<>>]
    ELSE Only({ IF r.raised # None
                  THEN [e |-> r.e, out |-> Raise(r.raised[1]), io |-> <<>>]
                ELSE Only({ IF version_id = None
                              THEN [e |-> r.e, out |-> Return(None), io |-> <<>>]
                            ELSE _get_version_value(cfg, b, r.e, version_id[1], t, d) :
                            version_id \in { _get_version_id(r.value, version_stage) } }) :
                r \in { get_result(cfg, e) } })

\* self._get_version(version_stage) of an item or of a version.  [e, out, io]
_get_version(cfg, b, e, version_stage, t, d) ==
    IF IsItem(e) THEN SecretCacheItem_get_version(cfg, b, e, version_stage, t, d)
    ELSE Only({ [e |-> v.e, out |-> v.out, io |-> <<>>] :
                v \in { SecretCacheVersion_get_version(cfg, e) } })

\* the stage get_secret_value works with: an empty version_stage is replaced
\* by the default stage
Stage(cfg, version_stage) ==
    IF version_stage = "" THEN cfg.opt.default_version_stage ELSE version_stage

\* SecretCacheObject.get_secret_value after its __refresh, the clock reading
\* t: _get_version, then raise or return.  [e, out, io]
get_secret_value_rest(cfg, b, e, version_stage, t, d) ==
    Only({ [e |-> v.e, out |-> get_secret_value_result(v.e, v.out), io |-> v.io] :
           v \in { _get_version(cfg, b, e, Stage(cfg, version_stage), t, d) } })

\* ----------------------------------------------------------- secret_cache.py
\* the rest of get_secret_string / get_secret_binary once
\* secret.get_secret_value has handed back out: None stays None, else
\* secret.get(field)
extract(out, field) ==
    IF out.kind = "raise" THEN out
    ELSE IF out.value = None THEN Return(None)
    ELSE Return(out.value[1][field])

\* SecretCache.refresh_secret_now after its _get_cached_secret has returned
\* secret (None, or Some(item)): secret.refresh_secret_now().  Neither
\* SecretCacheItem nor SecretCacheObject defines refresh_secret_now, so the
\* attribute lookup raises and the item stays as it is
cache_refresh_secret_now(secret) ==
    [e |-> secret,
     out |-> Raise(IF secret = None THEN AttributeErrorNoRefresh
                   ELSE AttributeErrorItemNoRefresh),
     io |-> <<>>]

\* ------------------------------------------------------------ calls in steps
\* Threads call the methods of one SecretCache, or of one cache object,
\* concurrently.  A call is a sequence of steps, one per statement (or run
\* of statements that read and write only what the thread alone can reach)
\* of secret_cache.py and of SecretCacheObject in items.py; a thread waits
\* where the code takes a lock.  The clock moves and the backend changes
\* between any two steps.  Cache objects are shared by reference: cache maps
\* a secret id to a reference, heap maps a reference to the object.
Count(io, name) == Len(SelectSeq(io, LAMBDA x : x[1] = name))
Failed(io) == \E i \in 1..Len(io) : ~io[i][2]

Threads == {1, 2}

\* no object (None) / no owner of a lock
NoRef == 0
NoThread == 0

\* a thread outside a call.  pc is where the thread is in its call;
\* secret_id and ref are the secret id and the object of the call; new, result,
\* raised and delay are locals: the item constructed for put_if_absent, what
\* _execute_refresh returned, the exception caught, the delay computed.
\* Observed of the call: the backend calls it made (io), the object and its
\* history as _is_refresh_needed found them (before), how its refresh ended
\* ("none", "ok", "failed"), whether and how a refresh by another thread
\* ended while the call waited for the object's lock (waited: "", "pending",
\* "ok", "failed"), and the threads that have been inside a backend call
\* for another secret id ever since the call began (during)
IdleThread ==
    [pc |-> "idle", secret_id |-> NoKey, ref |-> NoRef, new |-> None,
     result |-> None, raised |-> None, delay |-> 0,
     io |-> <<>>, before |-> None, refresh |-> "none",
     waited |-> "", during |-> {}]

\* a cache object in the heap: the secret id it was constructed for, the
\* owner of its RLock, its fields, and whether the program itself keeps a
\* reference to it (an object constructed outside a SecretCache)
Object(secret_id, e, kept) ==
    [secret_id |-> secret_id, owner |-> NoThread, item |-> e, kept |-> kept]

\* the history of an object, kept from its construction: whether a backend
\* call for it has succeeded (answered); the metadata describe_secret last
\* answered for it (seen); the number of refresh attempts that entered the
\* except branch in a row up to now (streak), and that number as the last
\* attempt that completed its try block found it (prior); whether
\* refresh_secret_now has been called on it since its last fetch began
\* (forced); the stages that describe_secret has answered for it with
\* another version than in the answer before (moved)
NoHist ==
    [answered |-> FALSE, seen |-> None, streak |-> 0, prior |-> 0, forced |-> FALSE,
     moved |-> {}]

\* the stages that the metadata meta labels another version with than the
\* metadata seen before it did
Moved(seen, meta) ==
    {s \in Stages : /\ _get_version_id(Some(meta), s) # None
                    /\ _get_version_id(seen, s)
                         \notin {None, _get_version_id(Some(meta), s)}}

\* mutant of LockFree: the lock is taken whoever owns it
LockFree_always(h, o, t) == TRUE

\* mutant of LockFree: one lock shared by all the objects
LockFree_global(h, o, t) == \A p \in DOMAIN h : h[p].owner \in {NoThread, t}

\* threading.RLock: a thread can take the lock when no other thread owns it
LockFree(h, o, t) == h[o].owner \in {NoThread, t}

\* the objects still referenced: by the cache, by a thread, by the program
Live(h, c, th) ==
    (({c.cache[k] : k \in DOMAIN c.cache} \cup {th[t].ref : t \in Threads}) \ {NoRef})
      \cup {o \in DOMAIN h : h[o].kept}

\* f without what the objects no longer referenced had in it
Collect(f, h, c, th) == [o \in (DOMAIN f) \cap Live(h, c, th) |-> f[o]]

\* a reference no object has yet
NewRef(h) ==
    CHOOSE n \in 1..(Cardinality(DOMAIN h) + 1) :
        /\ n \notin DOMAIN h
        /\ \A m \in 1..(n - 1) : m \in DOMAIN h

\* where a thread is between the first statement of the try block of
\* __refresh and the last statement of the branch it takes
RefreshPcs == {"fetching", "stamp", "store", "clear", "reset", "except", "count", "retry"}

\* the threads inside the backend call of a refresh of the object o, and
\* inside a refresh of it
Fetching(o) == {u \in Threads : threads[u].pc = "fetching" /\ threads[u].ref = o}
Refreshing(o) == {u \in Threads : threads[u].pc \in RefreshPcs /\ threads[u].ref = o}

\* no call ended in the last step
NoLast ==
    [op |-> "init", thread |-> NoThread, secret_id |-> NoKey, ref |-> NoRef,
     stage |-> "", out |-> Return(None), io |-> <<>>,
     done |-> 0, refresh |-> "none",
     waited |-> "", during |-> {}, held |-> FALSE,
     before |-> None, after |-> None, meta |-> None]

\* the cache holds the object o for the secret id
HeldAs(c, secret_id, o) == secret_id \in DOMAIN c.cache /\ c.cache[secret_id] = o

\* the record of the call of thread t that ends in a step: the method, its
\* version_stage argument, what it returned or raised (r.out), the backend
\* calls it made (r.io), the object as the call leaves it (r.e), whether the
\* object is the one the cache holds for the secret id, the metadata its
\* describe_secret call answered, the time the call ends at, and what the
\* thread observed
Ended(t, op, version_stage, r) ==
    [op |-> op, thread |-> t, secret_id |-> threads[t].secret_id,
     ref |-> threads[t].ref, stage |-> version_stage, out |-> r.out, io |-> r.io,
     done |-> now,
     refresh |-> threads[t].refresh, waited |-> threads[t].waited,
     during |-> threads[t].during,
     held |-> HeldAs(cache, threads[t].secret_id, threads[t].ref),
     before |-> threads[t].before, after |-> r.e, meta |-> threads[t].result]

\* the variables of the LRUCache specification while calls are made in steps
LRUIdle ==
    /\ lru = LRUCache(0)
    /\ lru_last = [op |-> "init", key |-> NoKey, data |-> None, ret |-> None, hit |-> FALSE,
                   pre |-> LRUCache(0), pre_touched |-> <<>>,
                   prev_op |-> "init", prev_key |-> NoKey, prev_hit |-> FALSE]
    /\ touched = <<>>

\* a step of a call that ends no call
StepFrame ==
    /\ last' = NoLast
    /\ UNCHANGED <<config, now, backend, built, inject>>
    /\ UNCHANGED lruVars

\* the calls the threads make in all: MaxCalls while the backend changes,
\* MaxStarts while it does not, or any number
MaxCalls == 2
MaxStarts == 3
Unlimited == -1

\* thread t calls get_secret_string, get_secret_binary or refresh_secret_now
\* with secret_id: the call of self._get_cached_secret(secret_id)
Begin(t, secret_id) ==
    /\ threads[t].pc = "idle"
    /\ callers.calls # 0
    /\ callers' = [callers EXCEPT !.calls = IF @ = Unlimited THEN @ ELSE @ - 1]
    /\ threads' = [threads EXCEPT ![t] =
           [IdleThread EXCEPT !.pc = "get", !.secret_id = secret_id,
                              !.during = {u \in Threads \ {t} :
                                            /\ threads[u].pc = "fetching"
                                            /\ threads[u].secret_id # secret_id}]]
    /\ UNCHANGED <<cache, heap, hist>>
    /\ StepFrame

\* LRUCache.get / put_if_absent of self._cache: with self._lock.  The thread
\* waits while another thread is inside a method of the LRUCache
CacheEnter(t) ==
    /\ threads[t].pc \in {"get", "put", "get2"}
    /\ callers.lock = NoThread
    /\ callers' = [callers EXCEPT !.lock = t]
    /\ UNCHANGED <<cache, heap, hist, threads>>
    /\ StepFrame

\* _get_cached_secret: secret = self._cache.get(secret_id), the body of get
\* under the LRUCache's lock and the release of the lock.  A hit is what
\* _get_cached_secret returns
CacheGet(t) ==
    /\ threads[t].pc = "get"
    /\ callers.lock = t
    /\ \E g \in {get(cache, threads[t].secret_id)} :
         /\ cache' = g.c
         /\ threads' = [threads EXCEPT ![t] =
                IF g.ret = None THEN [threads[t] EXCEPT !.pc = "make"]
                ELSE [threads[t] EXCEPT !.pc = "have", !.ref = g.ret[1]]]
    /\ callers' = [callers EXCEPT !.lock = NoThread]
    /\ UNCHANGED <<heap, hist>>
    /\ StepFrame

\* _get_cached_secret after a miss: the argument of put_if_absent,
\* SecretCacheItem(config=.., client=.., secret_id=..), is constructed; the
\* constructor reads the clock, and no lock is held
MakeItem(t) ==
    /\ threads[t].pc = "make"
    /\ threads' = [threads EXCEPT ![t].pc = "put",
                                  ![t].new = Some(SecretCacheItem(now))]
    /\ UNCHANGED <<cache, heap, hist, callers>>
    /\ StepFrame

\* _get_cached_secret: self._cache.put_if_absent(secret_id, the item
\* constructed).  An item the cache evicts to make room stays with the
\* threads that looked it up; an object nothing refers to is gone
CachePutIfAbsent(t) ==
    /\ threads[t].pc = "put"
    /\ callers.lock = t
    /\ \E n \in {NewRef(heap)} :
       \E p \in {put_if_absent(cache, threads[t].secret_id, n)} :
       \E h \in {heap @@ (n :> Object(threads[t].secret_id, threads[t].new[1], FALSE))} :
         /\ cache' = p.c
         /\ threads' = [threads EXCEPT ![t].pc = "get2", ![t].new = None]
         /\ heap' = Collect(h, h, p.c, threads')
         /\ hist' = Collect(hist @@ (n :> NoHist), h, p.c, threads')
    /\ callers' = [callers EXCEPT !.lock = NoThread]
    /\ StepFrame

\* _get_cached_secret: return self._cache.get(secret_id), which is None when
\* the id is no longer (or never was) in the cache
CacheGetAgain(t) ==
    /\ threads[t].pc = "get2"
    /\ callers.lock = t
    /\ \E g \in {get(cache, threads[t].secret_id)} :
         /\ cache' = g.c
         /\ threads' = [threads EXCEPT ![t] =
                IF g.ret = None THEN [threads[t] EXCEPT !.pc = "none"]
                ELSE [threads[t] EXCEPT !.pc = "have", !.ref = g.ret[1]]]
    /\ callers' = [callers EXCEPT !.lock = NoThread]
    /\ UNCHANGED <<heap, hist>>
    /\ StepFrame

\* the thread is about to enter "with self._lock" of the object o
AtLock(t, o) ==
    [threads[t] EXCEPT !.pc = "acquire", !.ref = o,
                       !.waited = IF Refreshing(o) \ {t} # {} THEN "pending" ELSE ""]

\* get_secret_string / get_secret_binary with the item _get_cached_secret
\* returned: secret.get_secret_value(version_stage), up to "with self._lock"
CallGetSecretValue(t) ==
    /\ threads[t].pc = "have"
    /\ threads' = [threads EXCEPT ![t] = AtLock(t, threads[t].ref)]
    /\ UNCHANGED <<cache, heap, hist, callers>>
    /\ StepFrame

\* get_secret_value: with self._lock (the thread waits while another owns it)
Acquire(t) ==
    /\ threads[t].pc = "acquire"
    /\ LockFree(heap, threads[t].ref, t)
    /\ heap' = [heap EXCEPT ![threads[t].ref].owner = t]
    /\ threads' = [threads EXCEPT ![t].pc = "locked"]
    /\ UNCHANGED <<cache, hist, callers>>
    /\ StepFrame

\* __refresh: if not self._is_refresh_needed(): return; else
\* self._refresh_needed = False, and the try block begins with the backend
\* call of _execute_refresh
Decide(t) ==
    /\ threads[t].pc = "locked"
    /\ \E o \in {threads[t].ref} :
       \E found \in {Some([item |-> heap[o].item, hist |-> hist[o]])} :
         IF _is_refresh_needed(heap[o].item, now)
           THEN /\ heap' = [heap EXCEPT ![o].item = clear_refresh_needed(heap[o].item)]
                /\ hist' = [hist EXCEPT ![o].forced = FALSE]
                /\ threads' = [u \in Threads |->
                      IF u = t
                        THEN [threads[t] EXCEPT !.pc = "fetching", !.before = found]
                      ELSE IF threads[u].pc = "acquire" /\ threads[u].ref = o
                        THEN [threads[u] EXCEPT !.waited = "pending"]
                      ELSE threads[u]]
           ELSE /\ threads' = [threads EXCEPT ![t].pc = "read", ![t].before = found]
                /\ UNCHANGED <<heap, hist>>
    /\ UNCHANGED <<cache, callers>>
    /\ StepFrame

\* the backend call of _execute_refresh returns or raises: describe_secret
\* for an item, get_secret_value for a version
ExecuteRefresh(t, ok) ==
    /\ threads[t].pc = "fetching"
    /\ \E o \in {threads[t].ref} :
       \E item \in {IsItem(heap[o].item)} :
       \E call \in {IF item THEN "describe_secret" ELSE "get_secret_value"} :
         /\ threads' = [u \in Threads |->
               IF u # t THEN [threads[u] EXCEPT !.during = @ \ {t}]
               ELSE IF ok
                 THEN [threads[t] EXCEPT
                         !.pc = IF item THEN "stamp" ELSE "store",
                         !.result = Some(IF item THEN backend
                                         ELSE BackendPayload(heap[o].item.version_id)),
                         !.io = Append(@, <<call, TRUE>>)]
               ELSE [threads[t] EXCEPT !.pc = "except", !.raised = Some(ClientError),
                                       !.io = Append(@, <<call, FALSE>>)]]
         /\ hist' = IF ok
                      THEN [hist EXCEPT ![o].answered = TRUE,
                                        ![o].seen = IF item THEN Some(backend) ELSE @,
                                        ![o].moved = IF item
                                                       THEN @ \cup Moved(hist[o].seen, backend)
                                                       ELSE @]
                      ELSE hist
    /\ UNCHANGED <<cache, heap, callers>>
    /\ StepFrame

\* SecretCacheItem._execute_refresh after describe_secret: the next refresh
\* time from the clock and the number j randint draws
Stamp(t, j) ==
    /\ threads[t].pc = "stamp"
    /\ heap' = [heap EXCEPT ![threads[t].ref].item = set_next_refresh_time(@, now, j)]
    /\ threads' = [threads EXCEPT ![t].pc = "store"]
    /\ UNCHANGED <<cache, hist, callers>>
    /\ StepFrame

\* __refresh: self.__set_result(what _execute_refresh returned)
SetResult(t) ==
    /\ threads[t].pc = "store"
    /\ \E s \in {set_result(config, heap[threads[t].ref].item, threads[t].result)} :
         /\ heap' = [heap EXCEPT ![threads[t].ref].item = s.e]
         /\ threads' = [threads EXCEPT ![t] =
                IF s.raised = None THEN [threads[t] EXCEPT !.pc = "clear"]
                ELSE [threads[t] EXCEPT !.pc = "except", !.raised = s.raised]]
    /\ UNCHANGED <<cache, hist, callers>>
    /\ StepFrame

\* __refresh: self._exception = None
ClearException(t) ==
    /\ threads[t].pc = "clear"
    /\ heap' = [heap EXCEPT ![threads[t].ref].item = clear_exception(@)]
    /\ threads' = [threads EXCEPT ![t].pc = "reset"]
    /\ UNCHANGED <<cache, hist, callers>>
    /\ StepFrame

\* the refresh of thread t on the object o ends as outcome: what the
\* threads know afterwards
Refreshed(t, o, outcome) ==
    [u \in Threads |->
       IF u = t THEN [threads[t] EXCEPT !.pc = "read", !.refresh = outcome]
       ELSE IF threads[u].ref = o /\ threads[u].waited = "pending"
         THEN [threads[u] EXCEPT !.waited = outcome]
       ELSE threads[u]]

\* __refresh: self._exception_count = 0, the last statement of the try block
ResetCount(t) ==
    /\ threads[t].pc = "reset"
    /\ \E o \in {threads[t].ref} :
         /\ heap' = [heap EXCEPT ![o].item = reset_exception_count(@)]
         /\ hist' = [hist EXCEPT ![o].prior = hist[o].streak, ![o].streak = 0]
         /\ threads' = Refreshed(t, o, "ok")
    /\ UNCHANGED <<cache, callers>>
    /\ StepFrame

\* __refresh, except Exception as e: self._exception = e
StoreException(t) ==
    /\ threads[t].pc = "except"
    /\ \E o \in {threads[t].ref} :
         /\ heap' = [heap EXCEPT ![o].item = store_exception(@, threads[t].raised)]
         /\ hist' = [hist EXCEPT ![o].streak = @ + 1]
    /\ threads' = [threads EXCEPT ![t].pc = "count"]
    /\ UNCHANGED <<cache, callers>>
    /\ StepFrame

\* __refresh: delay = base * (growth ** self._exception_count);
\* self._exception_count += 1
CountException(t) ==
    /\ threads[t].pc = "count"
    /\ \E o \in {threads[t].ref} :
         /\ threads' = [threads EXCEPT
                ![t].pc = "retry",
                ![t].delay = exception_retry_delay(config, heap[o].item)]
         /\ heap' = [heap EXCEPT ![o].item = count_exception(@)]
    /\ UNCHANGED <<cache, hist, callers>>
    /\ StepFrame

\* __refresh: delay = min(delay, max); self._next_retry_time = utcnow() +
\* timedelta(milliseconds=delay), the last statement of the except branch
SetRetryTime(t) ==
    /\ threads[t].pc = "retry"
    /\ \E o \in {threads[t].ref} :
         /\ heap' = [heap EXCEPT ![o].item =
                set_next_retry_time(config, @, threads[t].delay, now)]
         /\ threads' = Refreshed(t, o, "failed")
    /\ UNCHANGED <<cache, hist, callers>>
    /\ StepFrame

\* mutant of Leave: the with block is left and the lock stays with its owner
Leave_keep_lock(h, o, t, e) == [h EXCEPT ![o].item = e]

\* the with block of get_secret_value is left, by return or by raise, with
\* the object's fields e: the thread releases the lock
Leave(h, o, t, e) ==
    [h EXCEPT ![o].item = e, ![o].owner = IF @ = t THEN NoThread ELSE @]

\* the call of thread t ends: op, its version_stage argument, the result
\* r = [e, out, io], the heap h and the history hs it leaves.  The thread
\* drops its reference
Ends(t, op, version_stage, r, h, hs) ==
    /\ threads' = [threads EXCEPT ![t] = IdleThread]
    /\ heap' = Collect(h, h, cache, threads')
    /\ hist' = Collect(hs, h, cache, threads')
    /\ last' = Ended(t, op, version_stage, r)
    /\ UNCHANGED <<config, now, backend, cache, callers, built, inject>>
    /\ UNCHANGED lruVars

\* the success of get_secret_value matters only if a version can be reached
GetChoices ==
    IF HasPrivate("SecretCacheItem", "__get_result") THEN BOOLEAN ELSE {TRUE}

\* get_secret_value of thread t after __refresh: _get_version, the raise or
\* the return, and the end of the with block.  [e, out, io, heap]
Rest(t, version_stage) ==
    { [e |-> Some(r.e), out |-> r.out, io |-> threads[t].io \o r.io,
       heap |-> Leave(heap, threads[t].ref, t, r.e)] :
      r \in { get_secret_value_rest(config, Client(backend, TRUE, get_ok),
                                    heap[threads[t].ref].item, version_stage, now, 0) :
              get_ok \in GetChoices } }

\* what the call raises when _get_cached_secret returned None
NoItem(exc) == [e |-> None, out |-> Raise(exc), io |-> <<>>]

\* SecretCache.get_secret_string(secret_id, version_stage) of thread t ends:
\* secret.get_secret_value(version_stage) after its refresh, then the string
\* of what it returned; with None for secret the attribute lookup raises
GetSecretString(t, version_stage) ==
    /\ threads[t].pc \in {"read", "none"}
    /\ IF threads[t].pc = "none"
         THEN Ends(t, "get_secret_string", version_stage,
                   NoItem(AttributeErrorNoItem), heap, hist)
         ELSE \E r \in Rest(t, version_stage) :
                Ends(t, "get_secret_string", version_stage,
                     [e |-> r.e, out |-> extract(r.out, "SecretString"), io |-> r.io],
                     r.heap, hist)

\* SecretCache.get_secret_binary(secret_id, version_stage) of thread t ends
GetSecretBinary(t, version_stage) ==
    /\ threads[t].pc \in {"read", "none"}
    /\ IF threads[t].pc = "none"
         THEN Ends(t, "get_secret_binary", version_stage,
                   NoItem(AttributeErrorNoItem), heap, hist)
         ELSE \E r \in Rest(t, version_stage) :
                Ends(t, "get_secret_binary", version_stage,
                     [e |-> r.e, out |-> extract(r.out, "SecretBinary"), io |-> r.io],
                     r.heap, hist)

\* SecretCache.refresh_secret_now(secret_id) of thread t ends:
\* secret.refresh_secret_now() with what _get_cached_secret returned
RefreshSecretNow(t) ==
    /\ threads[t].pc \in {"have", "none"}
    /\ IF threads[t].pc = "none"
         THEN Ends(t, "refresh_secret_now", "", cache_refresh_secret_now(None), heap, hist)
         ELSE Ends(t, "refresh_secret_now", "",
                   cache_refresh_secret_now(Some(heap[threads[t].ref].item)), heap,
                   [hist EXCEPT ![threads[t].ref].forced = TRUE])

\* ------------------------------------------------------------ the backend
\* (continued) time passes, up to the time max
TickTo(max) ==
    /\ now + TimeStep <= max
    /\ now' = now + TimeStep
    /\ last' = NoLast
    /\ UNCHANGED <<config, backend, cache, hist>>
    /\ UNCHANGED lruVars
    /\ UNCHANGED threadVars
    /\ UNCHANGED auxVars

Tick == TickTo(MaxTime)

\* the backend's metadata changes: a name, a first version, a rotation
BackendChange ==
    /\ backend # MetaV2Current
    /\ backend' = NextMeta(backend)
    /\ last' = NoLast
    /\ UNCHANGED <<config, now, cache, hist>>
    /\ UNCHANGED lruVars
    /\ UNCHANGED threadVars
    /\ UNCHANGED auxVars

\* -------------------------------------------------- SecretCache specification
\* the thread variables while no call is made in steps
ThreadsIdle == threads = <<>> /\ heap = <<>>
AuxIdle == built = <<>> /\ callers = <<>> /\ inject = <<>>

\* the SecretCache variables while another specification runs
SecretVarsIdle ==
    /\ config = [opt |-> OPTION_DEFAULTS, secret_cache_hook |-> HookUnset]
    /\ now = 0
    /\ backend = MetaEmpty
    /\ cache = LRUCache(0)
    /\ last = NoLast
    /\ hist = <<>>

SecretIdle ==
    /\ ThreadsIdle
    /\ AuxIdle
    /\ SecretVarsIdle

\* no thread in a call, no object, nobody inside the LRUCache of a
\* SecretCache built with cfg for a backend that holds meta
Start(cfg, meta, calls) ==
    /\ LRUIdle
    /\ built = <<>>
    /\ inject = <<>>
    /\ config = cfg
    /\ now = 0
    /\ backend = meta
    /\ cache = LRUCache(cfg.opt.max_cache_size)
    /\ last = NoLast
    /\ hist = <<>>
    /\ threads = [t \in Threads |-> IdleThread]
    /\ heap = <<>>
    /\ callers = [lock |-> NoThread, calls |-> calls]

\* SecretCache(config, client) with a configuration and a client
Init == \E cfg \in CacheConfigs, meta \in Metas : Start(cfg, meta, MaxCalls)

\* the steps of _get_cached_secret
LookupStep(t) ==
    \/ CacheEnter(t)
    \/ CacheGet(t)
    \/ MakeItem(t)
    \/ CachePutIfAbsent(t)
    \/ CacheGetAgain(t)

\* the steps of get_secret_value up to the end of __refresh
RefreshStep(t) ==
    \/ Acquire(t)
    \/ Decide(t)
    \/ \E ok \in BOOLEAN : ExecuteRefresh(t, ok)
    \/ \E j \in Jitter(config) : Stamp(t, j)
    \/ SetResult(t)
    \/ ClearException(t)
    \/ ResetCount(t)
    \/ StoreException(t)
    \/ CountException(t)
    \/ SetRetryTime(t)

\* the steps of the calls on a SecretCache
CacheStep(t) ==
    \/ \E s \in SecretIds : Begin(t, s)
    \/ LookupStep(t)
    \/ CallGetSecretValue(t)
    \/ RefreshStep(t)
    \/ \E st \in StageArgs : GetSecretString(t, st)
    \/ \E st \in StageArgs : GetSecretBinary(t, st)
    \/ RefreshSecretNow(t)

Next ==
    \/ \E t \in Threads : CacheStep(t)
    \/ Tick
    \/ BackendChange

Spec == Init /\ [][Next]_vars

\* --------------------------------------------------- threads specification
\* the calls of the threads on a SecretCache whose backend holds the same
\* metadata throughout
InitThreads == \E cfg \in CacheConfigs : Start(cfg, MetaV1Current, MaxStarts)

NextThreads ==
    \/ \E t \in Threads : CacheStep(t)
    \/ Tick

SpecThreads == InitThreads /\ [][NextThreads]_vars

\* ------------------------------------------- threads under fair scheduling
\* the threads make any number of calls for one secret id on a SecretCache
\* with a hook
FairIds == {1}
InitFair == Start(Config(KwOdd, HookObject), MetaV1Current, Unlimited)

\* a step of the call thread t is in: every step but the start of a call
Proceed(t) ==
    \/ LookupStep(t)
    \/ CallGetSecretValue(t)
    \/ RefreshStep(t)
    \/ \E st \in StageArgs : GetSecretString(t, st)
    \/ \E st \in StageArgs : GetSecretBinary(t, st)
    \/ RefreshSecretNow(t)

NextFair ==
    \E t \in Threads :
        \/ \E s \in FairIds : Begin(t, s)
        \/ Proceed(t)

\* the scheduler runs every thread that can take a step, and every backend
\* call returns or raises.  A thread that waits for a lock can take its
\* step only while the lock is free: threading.RLock and threading.Lock
\* promise no order among the threads that wait
Fairness == \A t \in Threads : WF_vars(Proceed(t))

SpecThreadsFair == InitFair /\ [][NextFair]_vars /\ Fairness

\* --------------------------------------------------- one item specification
\* One SecretCacheItem, constructed by the program itself as test_items.py
\* does, and the get_secret_value(version_stage) and refresh_secret_now()
\* calls of the threads on it, under every item configuration, while time
\* passes.  The item is object 1 of the heap
EntryId == 1

\* the clock of the item advances by seconds, MaxItemTicks times at most
MaxItemTicks == 2
MaxItemTime == MaxItemTicks * TimeStep

\* the program has not constructed its object yet
InitItem == \E cfg \in ItemConfigs, meta \in ItemMetas : Start(cfg, meta, Unlimited)

\* the program constructs the object e and keeps it
New(e) ==
    /\ heap = <<>>
    /\ heap' = (EntryId :> Object(EntryId, e, TRUE))
    /\ hist' = (EntryId :> NoHist)
    /\ UNCHANGED <<cache, threads, callers>>
    /\ StepFrame

\* SecretCacheItem(config, client, secret_id): the constructor reads the clock
NewSecretCacheItem == New(SecretCacheItem(now))

\* thread t calls get_secret_value(version_stage) of the object, up to
\* "with self._lock"
ItemCall(t) ==
    /\ threads[t].pc = "idle"
    /\ heap # <<>>
    /\ threads' = [threads EXCEPT ![t] =
           [AtLock(t, EntryId) EXCEPT !.secret_id = heap[EntryId].secret_id]]
    /\ UNCHANGED <<cache, heap, hist, callers>>
    /\ StepFrame

\* get_secret_value(version_stage) of thread t on the object ends: the rest
\* of the with block after __refresh
GetSecretValue(t, version_stage) ==
    /\ threads[t].pc = "read"
    /\ \E r \in Rest(t, version_stage) :
         Ends(t, "get_secret_value", version_stage,
              [e |-> r.e, out |-> r.out, io |-> r.io], r.heap, hist)

\* thread t calls refresh_secret_now() of the item, as
\* SecretCache.refresh_secret_now does: the class defines no such method
ItemRefreshSecretNow(t) ==
    /\ threads[t].pc = "idle"
    /\ heap # <<>>
    /\ last' = [Ended(t, "refresh_secret_now", "",
                      cache_refresh_secret_now(Some(heap[EntryId].item)))
                  EXCEPT !.secret_id = heap[EntryId].secret_id, !.ref = EntryId]
    /\ hist' = [hist EXCEPT ![EntryId].forced = TRUE]
    /\ UNCHANGED <<config, now, backend, cache, heap, threads, callers, built, inject>>
    /\ UNCHANGED lruVars

ItemTick == TickTo(MaxItemTime)

NextItem ==
    \/ NewSecretCacheItem
    \/ \E t \in Threads : ItemCall(t)
    \/ \E t \in Threads : RefreshStep(t)
    \/ \E t \in Threads, st \in StageArgs : GetSecretValue(t, st)
    \/ \E t \in Threads : ItemRefreshSecretNow(t)
    \/ ItemTick

SpecItem == InitItem /\ [][NextItem]_vars

\* ------------------------------------------- one item, default configuration
\* the longest run of failed refreshes followed
MaxStreak == 14

\* SecretCacheConfig(): every option at its default, no hook attribute
DefaultConfig == Config(<<>>, HookUnset)

\* SecretCacheItem(config=SecretCacheConfig(), client, secret_id) at time 0,
\* kept by the program
InitProbe ==
    /\ LRUIdle
    /\ built = <<>>
    /\ inject = <<>>
    /\ config = DefaultConfig
    /\ now = 0
    /\ backend = MetaV1Current
    /\ cache = LRUCache(0)
    /\ last = NoLast
    /\ hist = (EntryId :> NoHist)
    /\ threads = [t \in Threads |-> IdleThread]
    /\ heap = (EntryId :> Object(EntryId, SecretCacheItem(0), TRUE))
    /\ callers = [lock |-> NoThread, calls |-> Unlimited]

\* time passes until the retry time of the item
Advance ==
    /\ heap[EntryId].item.next_retry_time # None
    /\ heap[EntryId].item.exception_count < MaxStreak
    /\ now < heap[EntryId].item.next_retry_time[1]
    /\ now' = heap[EntryId].item.next_retry_time[1]
    /\ last' = NoLast
    /\ UNCHANGED <<config, backend, cache, hist>>
    /\ UNCHANGED lruVars
    /\ UNCHANGED threadVars
    /\ UNCHANGED auxVars

\* the steps of one thread on the item while describe_secret raises: each
\* refresh takes the except branch
ProbeStep(t) ==
    \/ ItemCall(t)
    \/ Acquire(t)
    \/ Decide(t)
    \/ ExecuteRefresh(t, FALSE)
    \/ StoreException(t)
    \/ CountException(t)
    \/ SetRetryTime(t)
    \/ GetSecretValue(t, "")

\* the calls of one thread
NextProbe ==
    \/ \E t \in {1} : ProbeStep(t)
    \/ Advance

SpecProbe == InitProbe /\ [][NextProbe]_vars

\* ------------------------------------------ one version, every configuration
\* the clock of the version advances by half seconds, MaxVersionTicks times
\* at most
MaxVersionTicks == 4
VersionStep == SecondMs \div 2

\* SecretCacheVersion(config, client, secret_id, version_id) at time 0, kept
\* by the program
InitVersion ==
    /\ LRUIdle
    /\ built = <<>>
    /\ inject = <<>>
    /\ config \in Configs
    /\ now = 0
    /\ backend = MetaV2Current
    /\ cache = LRUCache(0)
    /\ last = NoLast
    /\ hist = (EntryId :> NoHist)
    /\ threads = [t \in Threads |-> IdleThread]
    /\ \E v \in VersionIds :
         heap = (EntryId :> Object(EntryId, SecretCacheVersion(v), TRUE))
    /\ callers = [lock |-> NoThread, calls |-> Unlimited]

\* time passes
VersionAdvance ==
    /\ now + VersionStep <= MaxVersionTicks * VersionStep
    /\ now' = now + VersionStep
    /\ last' = NoLast
    /\ UNCHANGED <<config, backend, cache, hist>>
    /\ UNCHANGED lruVars
    /\ UNCHANGED threadVars
    /\ UNCHANGED auxVars

\* the steps of a call on a version: its _execute_refresh draws no number
VersionStepOf(t) ==
    \/ ItemCall(t)
    \/ Acquire(t)
    \/ Decide(t)
    \/ \E ok \in BOOLEAN : ExecuteRefresh(t, ok)
    \/ SetResult(t)
    \/ ClearException(t)
    \/ ResetCount(t)
    \/ StoreException(t)
    \/ CountException(t)
    \/ SetRetryTime(t)
    \/ GetSecretValue(t, "")

NextVersion ==
    \/ \E t \in Threads : VersionStepOf(t)
    \/ VersionAdvance

SpecVersion == InitVersion /\ [][NextVersion]_vars

\* ------------------------------------------------ configuration construction
\* the option names callers pass: the options of OPTION_DEFAULTS, the hook
\* option of test_cache_hook.py and the unknown name of test_config.py
KwNames == OptionNames \cup {"secret_cache_hook", "no"}

\* the value passed for a name (none of them the option's default)
KwValue(name) ==
    IF name = "default_version_stage" THEN "AWSPENDING"
    ELSE IF name = "secret_cache_hook" THEN HookObject
    ELSE IF name = "no" THEN "one"
    ELSE 7

\* the keyword arguments of a call: any subset of the names
Kwargs == { [name \in S |-> KwValue(name)] : S \in SUBSET KwNames }

InitConfig ==
    /\ LRUIdle
    /\ SecretIdle

\* one call SecretCacheConfig(**kwargs)
Construct(kwargs) ==
    /\ built' = [kwargs |-> kwargs, result |-> SecretCacheConfig(kwargs)]
    /\ UNCHANGED <<callers, inject>>
    /\ UNCHANGED lruVars
    /\ UNCHANGED secretVars
    /\ UNCHANGED threadVars

NextConfig == \E kwargs \in Kwargs : Construct(kwargs)

SpecConfig == InitConfig /\ [][NextConfig]_vars

\* ------------------------------------------------------------ decorators.py
\* the most caches one decorator is given (the primary and its replicas)
MaxCaches == 3

\* the error codes after which the next cache is tried
RetryableCodes == {"InternalFailure", "ServiceUnavailable"}

\* e.response["Error"]["Code"] of the ClientErrors a cache raises
ClientErrorCodes == RetryableCodes \cup {"ResourceNotFoundException"}

\* what the get_secret_string of one cache does when it is called: it
\* answers, it raises a ClientError with one of the codes, or it raises
\* another exception
CacheOutcomes == {"ok"} \cup ClientErrorCodes \cup {AttributeErrorItemResult}

\* the string the cache at this index answers with
SecretOf(replica) == <<"secret", replica>>

\* the exception the cache at this index raises
RaisedBy(exc, replica) == Raise(<<exc, replica>>)

\* the threads that call _get_cached_secret of one decorator object; the
\* decorator takes no lock
InjectCallers == {1, 2}

\* InjectSecretAbstract(secret_id, cache, caches): n caches in all
InjectSecretAbstract(n) == [n |-> n, cache_id |-> 0]

\* a caller outside _get_cached_secret.  Inside: the list replicas and the
\* round of the for loop (rs, i), the secret a cache answered with; and,
\* observed, the cache_id the call read (start), the caches it has called and
\* what each did (probed, codes), and whether another call was in progress
\* at any time during this one (overlapped)
NotCalling ==
    [pc |-> "idle", rs |-> <<>>, i |-> 0, secret |-> None,
     start |-> 0, probed |-> <<>>, codes |-> <<>>, overlapped |-> FALSE]

\* no call ended in the last step
NoCall ==
    [called |-> FALSE, caller |-> 0, start |-> 0, probed |-> <<>>, codes |-> <<>>,
     out |-> Return(None), found |-> 0, overlapped |-> FALSE]

\* the record of the call of caller c that ends in a step with out; found is
\* cache_id as the step finds it
EndedCall(c, probed, codes, out) ==
    [called |-> TRUE, caller |-> c, start |-> inject.calls[c].start,
     probed |-> probed, codes |-> codes, out |-> out,
     found |-> inject.d.cache_id, overlapped |-> inject.calls[c].overlapped]

\* the mutant: the probe always starts at the primary cache
replicas_from_primary(n, cache_id) == [k \in 1..n |-> (k - 1) % n]

\* [i % n_caches for i in range(self.cache_id, self.cache_id + n_caches)]
replicas(n, cache_id) == [k \in 1..n |-> (cache_id + k - 1) % n]

\* a decorator over 1..MaxCaches caches, not yet called; succeeded is the
\* index of the cache whose get_secret_string answered last
InitInject ==
    /\ LRUIdle
    /\ SecretVarsIdle
    /\ ThreadsIdle
    /\ built = <<>>
    /\ callers = <<>>
    /\ \E n \in 1..MaxCaches :
         inject = [d |-> InjectSecretAbstract(n),
                   calls |-> [c \in InjectCallers |-> NotCalling],
                   last |-> NoCall, succeeded |-> 0]

\* the variables a step of the decorator leaves alone
InjectFrame ==
    /\ UNCHANGED <<built, callers>>
    /\ UNCHANGED lruVars
    /\ UNCHANGED secretVars
    /\ UNCHANGED threadVars

\* some caller other than c is inside _get_cached_secret
OthersInside(c) == \E b \in InjectCallers \ {c} : inject.calls[b].pc # "idle"

\* _get_cached_secret begins: n_caches = len(self.caches) and the list
\* replicas, built from self.cache_id as the caller reads it
BuildReplicas(c) ==
    /\ inject.calls[c].pc = "idle"
    /\ inject' = [inject EXCEPT
          !.calls = [b \in InjectCallers |->
              IF b = c
                THEN [NotCalling EXCEPT
                        !.pc = "probe",
                        !.rs = replicas(inject.d.n, inject.d.cache_id),
                        !.i = 1,
                        !.start = inject.d.cache_id,
                        !.overlapped = OthersInside(c)]
              ELSE IF inject.calls[b].pc # "idle"
                THEN [inject.calls[b] EXCEPT !.overlapped = TRUE]
              ELSE inject.calls[b]],
          !.last = NoCall]
    /\ InjectFrame

\* a round of the for loop: self.caches[replica].get_secret_string(..)
\* answers or raises as o.  An answer is kept in secret; InternalFailure or
\* ServiceUnavailable of a replica that is not replicas[-1] goes on to the
\* next round; everything else is raised and ends the call
ProbeReplica(c, o) ==
    /\ inject.calls[c].pc = "probe"
    /\ \E me \in {inject.calls[c]} :
       \E replica \in {me.rs[me.i]} :
       \E probed \in {Append(me.probed, replica)} :
       \E codes \in {Append(me.codes, o)} :
         inject' =
           IF o = "ok"
             THEN [inject EXCEPT
                     !.calls[c] = [me EXCEPT !.pc = "store", !.probed = probed,
                                             !.codes = codes,
                                             !.secret = Some(SecretOf(replica))],
                     !.succeeded = replica,
                     !.last = NoCall]
           ELSE IF o \in RetryableCodes /\ replica # me.rs[Len(me.rs)]
             THEN [inject EXCEPT
                     !.calls[c] = [me EXCEPT !.i = @ + 1, !.probed = probed,
                                             !.codes = codes],
                     !.last = NoCall]
           ELSE [inject EXCEPT
                   !.calls[c] = NotCalling,
                   !.last = EndedCall(c, probed, codes, RaisedBy(o, replica))]
    /\ InjectFrame

\* after an answer: self.cache_id = replica; break; return secret
StoreCacheId(c) ==
    /\ inject.calls[c].pc = "store"
    /\ \E me \in {inject.calls[c]} :
         inject' = [inject EXCEPT
                      !.d.cache_id = me.rs[me.i],
                      !.calls[c] = NotCalling,
                      !.last = EndedCall(c, me.probed, me.codes, Return(me.secret[1]))]
    /\ InjectFrame

NextInject ==
    \E c \in InjectCallers :
        \/ BuildReplicas(c)
        \/ \E o \in CacheOutcomes : ProbeReplica(c, o)
        \/ StoreCacheId(c)

SpecInject == InitInject /\ [][NextInject]_vars

\* ------------------------------------------------------- LRU specification
\* keys of s without k, order kept
Remove(s, k) == SelectSeq(s, LAMBDA x : x # k)
Touch(s, k) == <<k>> \o Remove(s, k)

\* the record kept of a completed call: the call, its result, the cache and
\* the touch history before it, and the call that preceded it
Call(op, k, d, ret, hit) ==
    [op |-> op, key |-> k, data |-> d, ret |-> ret, hit |-> hit,
     pre |-> lru, pre_touched |-> touched,
     prev_op |-> lru_last.op, prev_key |-> lru_last.key, prev_hit |-> lru_last.hit]

\* LRUCache(max_size=n) for a capacity n
InitLRU ==
    /\ SecretIdle
    /\ \E n \in Capacities : lru = LRUCache(n)
    /\ lru_last = [op |-> "init", key |-> NoKey, data |-> None, ret |-> None, hit |-> FALSE,
                   pre |-> LRUCache(0), pre_touched |-> <<>>,
                   prev_op |-> "init", prev_key |-> NoKey, prev_hit |-> FALSE]
    /\ touched = <<>>

\* one call cache.get(k)
LRUGet(k) ==
    LET r == get(lru, k)
    IN  /\ lru' = r.c
        /\ lru_last' = Call("get", k, None, r.ret, r.ret # None)
        /\ touched' = IF r.ret # None THEN Touch(touched, k) ELSE touched
        /\ UNCHANGED secretVars
        /\ UNCHANGED threadVars
        /\ UNCHANGED auxVars

\* one call cache.put_if_absent(k, d)
LRUPutIfAbsent(k, d) ==
    LET r == put_if_absent(lru, k, d)
    IN  /\ lru' = r.c
        /\ lru_last' = Call("put", k, Some(d), Some(r.ret), r.ret)
        /\ touched' = IF r.ret THEN Touch(touched, k) ELSE touched
        /\ UNCHANGED secretVars
        /\ UNCHANGED threadVars
        /\ UNCHANGED auxVars

NextLRU ==
    \/ \E k \in Keys : LRUGet(k)
    \/ \E k \in Keys, d \in Data : LRUPutIfAbsent(k, d)

SpecLRU == InitLRU /\ [][NextLRU]_vars

\* ------------------------------------------------ the shape of an LRUCache
\* the keys met when following next from the node k, at most fuel of them
RECURSIVE Walk(_, _, _)
Walk(c, k, fuel) ==
    IF k = NoKey \/ fuel = 0 THEN <<>>
    ELSE IF k \notin DOMAIN c.next THEN <<k>>
    ELSE <<k>> \o Walk(c, c.next[k], fuel - 1)

\* the list of c from its head; one step more than there are nodes shows a cycle
Chain(c) == Walk(c, c.head, Cardinality(DOMAIN c.next) + 1)

\* the map and the list of c describe the same entries, once each
WellFormed(c) ==
    /\ DOMAIN c.next = DOMAIN c.cache
    /\ DOMAIN c.prev = DOMAIN c.cache
    /\ c.size = Cardinality(DOMAIN c.cache)
    /\ Len(Chain(c)) = c.size
    /\ {Chain(c)[i] : i \in 1..Len(Chain(c))} = DOMAIN c.cache
    /\ (c.size = 0) => (c.head = NoKey /\ c.tail = NoKey)
    /\ (c.size > 0)
         => /\ c.head \in DOMAIN c.cache /\ c.prev[c.head] = NoKey
            /\ c.tail \in DOMAIN c.cache /\ c.next[c.tail] = NoKey
            /\ Chain(c)[Len(Chain(c))] = c.tail
    /\ \A k \in DOMAIN c.cache :
         c.next[k] # NoKey => (c.next[k] \in DOMAIN c.cache /\ c.prev[c.next[k]] = k)

\* ---------------------------------------------- LRU calls by several threads
\* Every method body of LRUCache runs inside "with self._lock".  A thread's
\* call is followed statement group by statement group: the membership test
\* (with the dict insertion of put_if_absent), _update_head, and the eviction
\* block.  callers.ref is the cache a one-at-a-time execution of the calls, in
\* the order in which they took the lock, would have produced.
NoData == ""

\* a thread outside a call; agreed: its calls so far returned what they return
\* in the one-at-a-time execution; saw: on entering a body it found the map
\* and the list in agreement
IdleCaller ==
    [pc |-> "idle", op |-> "", key |-> NoKey, data |-> NoData,
     expect |-> None, agreed |-> TRUE, saw |-> TRUE]

\* self._lock (an RLock) can be taken by thread t
LRULockFree_always(owner, t) == TRUE

LRULockFree(owner, t) == owner \in {NoThread, t}

InitLRUThreads ==
    /\ ThreadsIdle
    /\ SecretVarsIdle
    /\ built = <<>>
    /\ inject = <<>>
    /\ \E n \in Capacities : lru = LRUCache(n)
    /\ lru_last = [op |-> "init", key |-> NoKey, data |-> None, ret |-> None, hit |-> FALSE,
                   pre |-> LRUCache(0), pre_touched |-> <<>>,
                   prev_op |-> "init", prev_key |-> NoKey, prev_hit |-> FALSE]
    /\ touched = <<>>
    /\ callers = [lock |-> NoThread, ref |-> lru, th |-> [t \in Threads |-> IdleCaller]]

CallerFrame ==
    /\ UNCHANGED <<lru_last, touched, built, inject>>
    /\ UNCHANGED secretVars
    /\ UNCHANGED threadVars

\* the call as a whole, applied to the cache c
Whole(c, op, key, data) ==
    IF op = "get" THEN get(c, key)
    ELSE Only({ [c |-> r.c, ret |-> Some(r.ret)] : r \in {put_if_absent(c, key, data)} })

\* thread t calls cache.get(key) or cache.put_if_absent(key, data)
LRUCall(t, op, key, data) ==
    /\ callers.th[t].pc = "idle"
    /\ callers' = [callers EXCEPT !.th[t] =
           [callers.th[t] EXCEPT !.pc = "wait", !.op = op, !.key = key, !.data = data]]
    /\ UNCHANGED lru
    /\ CallerFrame

\* "with self._lock": the thread enters the body and sees the cache as it is
LRUAcquire(t) ==
    /\ callers.th[t].pc = "wait"
    /\ LRULockFree(callers.lock, t)
    /\ \E r \in {Whole(callers.ref, callers.th[t].op, callers.th[t].key,
                        callers.th[t].data)} :
         callers' = [callers EXCEPT !.lock = t, !.ref = r.c,
                                    !.th[t].pc = "test", !.th[t].expect = r.ret,
                                    !.th[t].saw = (@ /\ WellFormed(lru))]
    /\ UNCHANGED lru
    /\ CallerFrame

\* the call of t returns ret: the with block ends and the lock is released
LRUReturn(t, ret) ==
    callers' = [callers EXCEPT
                  !.lock = NoThread,
                  !.th[t] = [IdleCaller EXCEPT
                               !.agreed = (callers.th[t].agreed /\ ret = callers.th[t].expect),
                               !.saw = callers.th[t].saw]]

\* "if key not in self._cache: return None" of get; "if key in self._cache:
\* return False" of put_if_absent, else the new LRUItem enters the dict and
\* the size counter grows
LRUTest(t) ==
    /\ callers.th[t].pc = "test"
    /\ \E key \in {callers.th[t].key} :
         IF callers.th[t].op = "get"
           THEN IF key \notin DOMAIN lru.cache
                  THEN LRUReturn(t, None) /\ UNCHANGED lru
                  ELSE /\ callers' = [callers EXCEPT !.th[t].pc = "head"]
                       /\ UNCHANGED lru
           ELSE IF key \in DOMAIN lru.cache
                  THEN LRUReturn(t, Some(FALSE)) /\ UNCHANGED lru
                  ELSE /\ lru' = [lru EXCEPT !.cache = lru.cache @@ (key :> callers.th[t].data),
                                              !.next = lru.next @@ (key :> NoKey),
                                              !.prev = lru.prev @@ (key :> NoKey),
                                              !.size = lru.size + 1]
                       /\ callers' = [callers EXCEPT !.th[t].pc = "head"]
    /\ CallerFrame

\* self._update_head(item); get then returns item.data
LRUHead(t) ==
    /\ callers.th[t].pc = "head"
    /\ callers.th[t].key \in DOMAIN lru.cache
    /\ lru' = _update_head(lru, callers.th[t].key)
    /\ IF callers.th[t].op = "get"
         THEN LRUReturn(t, Some(lru.cache[callers.th[t].key]))
         ELSE callers' = [callers EXCEPT !.th[t].pc = "evict"]
    /\ CallerFrame

\* the eviction block of put_if_absent, and "return True"
LRUEvict(t) ==
    /\ callers.th[t].pc = "evict"
    /\ lru.size > lru.max_size => lru.tail \in DOMAIN lru.cache
    /\ lru' = evict(lru)
    /\ LRUReturn(t, Some(TRUE))
    /\ CallerFrame

NextLRUThreads ==
    \/ \E t \in Threads, k \in Keys : LRUCall(t, "get", k, NoData)
    \/ \E t \in Threads, k \in Keys, d \in Data : LRUCall(t, "put", k, d)
    \/ \E t \in Threads : LRUAcquire(t)
    \/ \E t \in Threads : LRUTest(t)
    \/ \E t \in Threads : LRUHead(t)
    \/ \E t \in Threads : LRUEvict(t)

SpecLRUThreads == InitLRUThreads /\ [][NextLRUThreads]_vars

\* ------------------------------------------------------------- LRU claims
Mapped(c) == DOMAIN c.cache

\* the key of S touched longest ago according to the history h (newest first)
Oldest(h, S) ==
    CHOOSE k \in S : \A x \in S \ {k} :
        \E i, j \in 1..Len(h) : h[i] = x /\ h[j] = k /\ i < j

\* C1: after every completed get or put_if_absent the cache holds at most
\* max_size entries (both the dict and the size counter).
C1_CapacityInvariant ==
    /\ Cardinality(Mapped(lru)) <= lru.max_size
    /\ lru.size <= lru.max_size

\* an insertion into a full cache has just completed
C1_Witness ==
    /\ lru_last.op = "put" /\ lru_last.ret = Some(TRUE)
    /\ lru.max_size >= 1
    /\ Cardinality(Mapped(lru_last.pre)) = lru.max_size
    /\ Cardinality(Mapped(lru)) = lru.max_size

\* put_if_absent of an unseen key into a cache that holds max_size >= 1 entries
InsertIntoFull ==
    /\ lru_last.op = "put"
    /\ lru_last.key \notin Mapped(lru_last.pre)
    /\ lru_last.pre.max_size >= 1
    /\ Cardinality(Mapped(lru_last.pre)) = lru_last.pre.max_size

\* C2: put_if_absent of an unseen key into a full cache (max_size >= 1)
\* returns True, removes exactly one entry, namely the one whose last get or
\* insertion is oldest, and every other entry and the new one stay
\* retrievable with their values.
C2_EvictionVictim ==
    InsertIntoFull =>
        LET p == lru_last.pre
            v == Oldest(lru_last.pre_touched, Mapped(p))
        IN  /\ lru_last.ret = Some(TRUE)
            /\ Cardinality(Mapped(p) \ Mapped(lru)) = 1
            /\ Mapped(lru) = (Mapped(p) \ {v}) \cup {lru_last.key}
            /\ get(lru, v).ret = None
            /\ \A x \in Mapped(lru) :
                  get(lru, x).ret =
                      IF x = lru_last.key THEN lru_last.data ELSE Some(p.cache[x])

\* an insertion into a full cache of at least two entries, after earlier
\* evictions and right after a get that changed the order
C2_Witness ==
    /\ InsertIntoFull
    /\ lru_last.pre.max_size >= 2
    /\ Len(lru_last.pre_touched) > lru_last.pre.max_size
    /\ lru_last.prev_op = "get" /\ lru_last.prev_hit

\* C3: a successful get makes its key the most recently used (the head), and
\* with max_size >= 2 a key read right before an insertion is not evicted by it.
C3_RecencyPromotion ==
    /\ (lru_last.op = "get" /\ lru_last.hit) =>
           /\ lru.head = lru_last.key
           /\ Head(touched) = lru_last.key
           /\ Mapped(lru) = Mapped(lru_last.pre)
    /\ (/\ lru_last.op = "put" /\ lru_last.hit
        /\ lru_last.prev_op = "get" /\ lru_last.prev_hit
        /\ lru.max_size >= 2) =>
           /\ lru_last.prev_key \in Mapped(lru)
           /\ get(lru, lru_last.prev_key).ret = Some(lru_last.pre.cache[lru_last.prev_key])

\* the key read before the insertion was the least recently inserted one of a
\* full cache, and the insertion evicted another key
C3_Witness ==
    /\ lru_last.op = "put" /\ lru_last.hit
    /\ lru_last.prev_op = "get" /\ lru_last.prev_hit
    /\ lru.max_size >= 2
    /\ Cardinality(Mapped(lru_last.pre)) = lru.max_size
    /\ lru_last.prev_key \in Mapped(lru)
    /\ Mapped(lru_last.pre) \ Mapped(lru) # {}

\* put_if_absent on a key that was already mapped
PutPresent == lru_last.op = "put" /\ lru_last.key \in Mapped(lru_last.pre)

\* C4: put_if_absent on a present key returns False and changes nothing:
\* value, entry count, links and order are those before the call.
C4_PutPresentNoChange ==
    PutPresent =>
        /\ lru_last.ret = Some(FALSE)
        /\ lru = lru_last.pre
        /\ lru.cache[lru_last.key] = lru_last.pre.cache[lru_last.key]
        /\ lru.size = lru_last.pre.size
        /\ lru.head = lru_last.pre.head /\ lru.tail = lru_last.pre.tail

\* a second value was offered for a key that is mapped and is not the head
C4_Witness ==
    /\ PutPresent
    /\ lru_last.data # Some(lru_last.pre.cache[lru_last.key])
    /\ lru_last.pre.head # lru_last.key

\* C5: with max_size 0 the cache is empty after every call (no mapped key,
\* head and tail None, size 0) and every get returns None.
C5_ZeroCapacity ==
    lru.max_size = 0 =>
        /\ Mapped(lru) = {}
        /\ lru.head = NoKey /\ lru.tail = NoKey
        /\ lru.size = 0
        /\ lru_last.op = "get" => lru_last.ret = None
        /\ \A k \in Keys : get(lru, k).ret = None

\* a get of the key that was inserted by the call before it
C5_Witness ==
    /\ lru.max_size = 0
    /\ lru_last.op = "get"
    /\ lru_last.prev_op = "put" /\ lru_last.prev_hit
    /\ lru_last.prev_key = lru_last.key

\* ------------------------------------------------------ SecretCache claims
\* the stage a call asks for
StageOf(version_stage) == Stage(config, version_stage)

\* what a read of the payload p gives under the configuration
AsRead(p) == IF config.secret_cache_hook = HookObject THEN HookGet(HookPut(p)) ELSE p

\* the field a call returns when the metadata meta labels a version with the
\* stage and the payload of that version is fetched
Expected(meta, version_stage, field) ==
    AsRead(BackendPayload(_get_version_id(Some(meta), StageOf(version_stage))[1]))[field]

FieldOf(op) == IF op = "get_secret_string" THEN "SecretString" ELSE "SecretBinary"

IsGet(op) == op \in {"get_secret_string", "get_secret_binary"}

\* the call that ended in the last step was a get call on the item the cache
\* holds for its secret id
LastGet == IsGet(last.op) /\ last.held

\* the item and its history as the call that ended found them when it had
\* the lock, and the item as the call left it
Found == last.before[1]
Left == last.after[1]

\* the metadata the call that ended went by: what its own describe_secret
\* call answered, else what describe_secret last answered for the item
Described == IF last.meta # None THEN last.meta ELSE Found.hist.seen

\* no version the item e caches holds a stored exception
NoVersionException(e) ==
    \A v \in DOMAIN e.versions.cache : e.versions.cache[v].exception = None

\* the version the backend labels with the stage of a call, None if none
BackendVersion(version_stage) == _get_version_id(Some(backend), StageOf(version_stage))

\* the item's scheduled refresh time has come at time t
Due(e, t) == e.next_refresh_time <= t

\* C6: while describe_secret and get_secret_value succeed, get_secret_string
\* returns the string of the version that carries the requested (or default)
\* stage, on the first call that reaches the item the cache holds for the
\* secret and on every later call that ends before the item's scheduled
\* refresh time (the item going by the backend's metadata and storing no
\* exception); the first call makes at most one describe_secret and one
\* get_secret_value call, a later call makes no describe_secret call and,
\* for a version the item caches, no get_secret_value call.
C6_EndToEndCaching ==
    (/\ last.op = "get_secret_string" /\ last.held
     /\ ~Failed(last.io)
     /\ Described = Some(backend)
     /\ BackendVersion(last.stage) # None
     /\ \/ Found.item.refresh_needed
        \/ /\ Found.item.exception = None
           /\ NoVersionException(Found.item)
           /\ last.done < Found.item.next_refresh_time)
    => /\ last.out = Return(Expected(backend, last.stage, "SecretString"))
       /\ Count(last.io, "describe_secret") <= 1
       /\ Count(last.io, "get_secret_value") <= 1
       /\ ~Found.item.refresh_needed => Count(last.io, "describe_secret") = 0
       /\ (/\ ~Found.item.refresh_needed
           /\ BackendVersion(last.stage)[1] \in DOMAIN Found.item.versions.cache)
          => last.io = <<>>

\* C7: once an item the cache holds stores metadata that describe_secret
\* answered and that labels a version with the requested stage, a get call
\* on it whose describe_secret call fails does not raise: it returns the
\* value of that version.
C7_StaleServesOnError ==
    (/\ LastGet
     /\ last.io # <<>> /\ last.io[1] = <<"describe_secret", FALSE>>
     /\ \A k \in 2..Len(last.io) : last.io[k][2]
     /\ Found.hist.seen # None
     /\ Found.item.result # None
     /\ NoVersionException(Left)
     /\ _get_version_id(Found.item.result, StageOf(last.stage)) # None)
    => last.out = Return(Expected(Found.item.result[1], last.stage, FieldOf(last.op)))

\* C8: while no backend call for an item the cache holds has succeeded
\* (every fetch attempted for it has failed), get_secret_string /
\* get_secret_binary raise the stored backend exception.
C8_NoDataRaisesOnError ==
    (LastGet /\ ~hist[last.ref].answered)
    => /\ last.out = Raise(ClientError)
       /\ Left.exception = Some(ClientError)

\* the exceptions stored on an item and on the versions it caches
Stored(item) ==
    {item.exception} \cup
    {item.versions.cache[v].exception : v \in DOMAIN item.versions.cache}

\* C9: a get call on an item the cache holds raises only an exception that
\* is stored (on the item, or on the version the stage resolved to); in
\* every other case it returns a value or None.
C9_RaisesOnlyStored ==
    (LastGet /\ last.out.kind = "raise")
    => Some(last.out.exc) \in Stored(Left)

\* C10: when the metadata a get call on an item the cache holds fetches is
\* empty, has no version map, or labels no version with the requested stage,
\* the call returns None, makes no get_secret_value call and leaves no
\* exception stored on the item.
C10_UnresolvableStageIsAbsent ==
    (/\ LastGet
     /\ last.io # <<>> /\ last.io[1] = <<"describe_secret", TRUE>>
     /\ _get_version_id(last.meta, StageOf(last.stage)) = None)
    => /\ last.out = Return(None)
       /\ Count(last.io, "get_secret_value") = 0
       /\ Left.exception = None

\* the call that ended in the last step was refresh_secret_now on the item
\* the cache holds for its secret id
LastRefreshNow == last.op = "refresh_secret_now" /\ last.held

\* C13: when a refresh_secret_now call on an item the cache holds has ended
\* (no other call being inside a refresh of the item), the item needs a
\* refresh whatever its refresh time and its retry time are, and a get call
\* that finds the item with no fetch begun since that call makes a fetch
\* attempt: it calls describe_secret once, first.
C13_RefreshNowForcesFetch ==
    /\ (LastRefreshNow /\ Refreshing(last.ref) = {}) => _is_refresh_needed(Left, now)
    /\ (LastGet /\ Found.hist.forced)
       => /\ Count(last.io, "describe_secret") = 1
          /\ last.io[1][1] = "describe_secret"
          /\ last.refresh # "none"

\* thread t leaves a self._cache.get of _get_cached_secret in the step
LooksUp(t) ==
    threads[t].pc \in {"get", "get2"} /\ threads'[t].pc \notin {"get", "get2"}

\* C14: a call refresh_secret_now(secret_id) on an item the cache holds
\* returns, and when it has returned the item's next refresh time has been
\* drawn anew from the time of the call: it lies between the call time plus
\* half the refresh interval and the call time plus the refresh interval (so
\* after the item's creation), whatever it was before; looking the item up
\* in the cache leaves the item, and with it the refresh time, as it is.
C14_RefreshNowImmediate ==
    /\ [](LastRefreshNow
          => /\ last.out.kind = "return"
             /\ Left.next_refresh_time
                  >= last.done + RoundHalf(config.opt.secret_refresh_interval) * SecondMs
             /\ Left.next_refresh_time
                  <= last.done + config.opt.secret_refresh_interval * SecondMs)
    /\ [][(\E t \in Threads : LooksUp(t))
          => \A s \in DOMAIN cache.cache :
               /\ s \in DOMAIN cache'.cache
               /\ cache'.cache[s] = cache.cache[s]
               /\ heap'[cache.cache[s]].item = heap[cache.cache[s]].item]_vars

\* thread t, holding the lock of its item, evaluates _is_refresh_needed in
\* the step and goes on to the backend call (Fetches) or past the refresh
Decides(t) == threads[t].pc = "locked" /\ threads'[t].pc # "locked"
Fetches(t) == threads'[t].pc = "fetching"

\* the item thread t has looked up
ItemOf(t) == heap[threads[t].ref].item

\* C15: once the backend labels another version with the requested stage
\* than the one describe_secret last reported for the item, the first
\* get_secret_string call that finds the item at or after its scheduled
\* refresh time (not held back by an open retry window of the item) calls
\* describe_secret, and with describe_secret and get_secret_value succeeding
\* and no exception stored for a version it returns the string of the newly
\* labelled version; so does every later call that finds the backend's
\* current metadata stored in the item after such a change of version.
C15_RotationPickedUp ==
    /\ [][\A t \in Threads, st \in StageArgs :
            (/\ Decides(t)
             /\ BackendVersion(st) # None
             /\ _get_version_id(hist[threads[t].ref].seen, StageOf(st))
                  \notin {None, BackendVersion(st)}
             /\ Due(ItemOf(t), now)
             /\ \/ ItemOf(t).exception = None
                \/ _is_refresh_needed(ItemOf(t), now))
            => Fetches(t)]_vars
    /\ [](( /\ last.op = "get_secret_string" /\ last.held /\ ~Failed(last.io)
            /\ BackendVersion(last.stage) # None
            /\ NoVersionException(Found.item)
            /\ \/ /\ last.meta = Some(backend)
                  /\ _get_version_id(Found.hist.seen, StageOf(last.stage))
                       \notin {None, BackendVersion(last.stage)}
               \/ /\ last.meta = None
                  /\ StageOf(last.stage) \in Found.hist.moved
                  /\ Found.item.exception = None
                  /\ Found.item.result = Some(backend))
          => last.out = Return(Expected(backend, last.stage, "SecretString")))

\* C21: with a hook configured, a get_secret_string call on an item the cache
\* holds whose backend calls succeed and which leaves the item and its
\* versions without error stores hook.put(result of describe_secret) as the
\* item's result when it refreshes, and returns the string of
\* hook.get(hook.put(payload)) for the payload of the version the stored
\* metadata names for the stage.
C21_HookRoundTrip ==
    (/\ last.op = "get_secret_string" /\ last.held
     /\ config.secret_cache_hook = HookObject
     /\ ~Failed(last.io)
     /\ Left.exception = None
     /\ NoVersionException(Left))
    => /\ last.meta # None => Left.result = Some(HookPut(last.meta[1]))
       /\ \A vid \in {_get_version_id(Left.result, StageOf(last.stage))} :
            vid # None
            => last.out = Return(HookGet(HookPut(BackendPayload(vid[1]))).SecretString)

\* C22: without a hook (the attribute None, or never set), a get_secret_string
\* call on an item the cache holds whose describe_secret call succeeds stores
\* the raw result as the item's result, leaves the stored exception None and
\* the exception counter 0, and leaves the retry time as it was (None on an
\* item that was never refreshed).
C22_NoHookRawStore ==
    (/\ last.op = "get_secret_string" /\ last.held
     /\ config.secret_cache_hook \in {HookUnset, HookNone}
     /\ last.io # <<>>
     /\ last.io[1] = <<"describe_secret", TRUE>>)
    => /\ Left.result = last.meta
       /\ Left.exception = None
       /\ Left.exception_count = 0
       /\ Left.next_retry_time = Found.item.next_retry_time

\* the version id the item resolves the stage to: _get_version_id of the
\* stored metadata as __get_result hands it back through the hook
ResolvedVersion(item, version_stage) ==
    IF item.result = None THEN None
    ELSE _get_version_id(Some(HookGet(item.result[1])), version_stage)

\* C36: after a get call on an item the cache holds the item holds at most
\* VersionCacheSize (10) versions, each stored under its own version id, and
\* when the item's metadata labels a version with the stage of the call, the
\* item holds a version object for that version id.
C36_VersionChildren ==
    (last.op = "get_secret_string" /\ last.held)
    => /\ Cardinality(DOMAIN Left.versions.cache) <= VersionCacheSize
       /\ Left.versions.size <= VersionCacheSize
       /\ \A v \in DOMAIN Left.versions.cache : Left.versions.cache[v].version_id = v
       /\ config.secret_cache_hook = HookObject
          => \A vid \in {ResolvedVersion(Left, StageOf(last.stage))} :
               vid # None => vid[1] \in DOMAIN Left.versions.cache

\* ------------------------------------------------------------ one item claims
\* the retry delay in milliseconds that the n-th failure in a row schedules
BackoffDelay(n) ==
    Min(config.opt.exception_retry_delay_base
          * (config.opt.exception_retry_growth_factor ^ (n - 1)),
        config.opt.exception_retry_delay_max)

\* a get_secret_value call on the object ended in the last step
LastItemGet == last.op = "get_secret_value"

\* thread t executes the last statement of the except branch of __refresh
\* (self._next_retry_time = ..) in the step
SetsRetryTime(t) == threads[t].pc = "retry" /\ threads'[t].pc # "retry"

\* thread t executes the last statement of the try block of __refresh
\* (self._exception_count = 0) in the step
ResetsCount(t) == threads[t].pc = "reset" /\ threads'[t].pc # "reset"

\* C11: when a refresh attempt fails and it is the N-th attempt in a row on
\* the object that entered the except branch (N >= 1), the statement that
\* ends the branch leaves the exception counter at N and the next retry time
\* at the time of that statement plus min(base * growth^(N-1), max)
\* milliseconds.
C11_BackoffGrowth ==
    [][\A t \in Threads :
         SetsRetryTime(t)
         => \E o \in {threads[t].ref} :
              /\ hist[o].streak >= 1
              /\ heap'[o].item.exception_count = hist[o].streak
              /\ heap'[o].item.next_retry_time
                   = Some(now + BackoffDelay(hist[o].streak))]_vars

\* the third failure in a row has just scheduled its retry, base * growth^2
\* milliseconds ahead and below the maximum, after a backend call that raised
C11_Witness ==
    \E t \in Threads :
        /\ threads[t].pc = "read" /\ threads[t].refresh = "failed"
        /\ Failed(threads[t].io)
        /\ hist[EntryId].streak = 3
        /\ config.opt.exception_retry_growth_factor > 1
        /\ heap[EntryId].item.next_retry_time
             = Some(now + config.opt.exception_retry_delay_base
                            * config.opt.exception_retry_growth_factor
                            * config.opt.exception_retry_growth_factor)

\* C12: a refresh attempt that completes its try block leaves the object
\* with no stored exception and an exception counter of 0, so the first
\* failed attempt after it schedules the retry min(base, max) milliseconds
\* after the failure, however many failures came before the success.
C12_BackoffReset ==
    /\ [][\A t \in Threads :
            ResetsCount(t)
            => /\ heap'[threads[t].ref].item.exception = None
               /\ heap'[threads[t].ref].item.exception_count = 0]_vars
    /\ [][\A t \in Threads :
            (SetsRetryTime(t) /\ hist[threads[t].ref].streak = 1)
            => heap'[threads[t].ref].item.next_retry_time
                 = Some(now + Min(config.opt.exception_retry_delay_base,
                                  config.opt.exception_retry_delay_max))]_vars

\* the first failure after a success that itself followed two failures in a
\* row has just scheduled its retry
C12_Witness ==
    \E t \in Threads :
        /\ threads[t].pc = "read" /\ threads[t].refresh = "failed"
        /\ hist[EntryId].streak = 1 /\ hist[EntryId].prior = 2
        /\ heap[EntryId].item.exception_count = 1

\* the version entry the item e caches for the stage, None when the item's
\* metadata names no version for the stage or the version is not cached
CachedVersion(e, version_stage) ==
    Only({ IF vid = None \/ vid[1] \notin DOMAIN e.versions.cache THEN None
           ELSE Some(e.versions.cache[vid[1]]) :
           vid \in { _get_version_id(e.result, StageOf(version_stage)) } })

\* C20: a get_secret_value call on an item that leaves the item and its
\* versions without error, the item's metadata naming a version for the
\* stage, returns a value that is the caller's own (return deepcopy(value)),
\* not the object the cache keeps, and equal to what __get_result gives for
\* the version the item caches for the stage; so nothing the caller does to
\* it reaches the stored result or what another call returns.
C20_CopyOnRead ==
    (/\ LastItemGet
     /\ IsItem(Left)
     /\ ~Failed(last.io)
     /\ Left.exception = None
     /\ NoVersionException(Left)
     /\ _get_version_id(Left.result, StageOf(last.stage)) # None)
    => /\ last.out.kind = "return"
       /\ last.out.own
       /\ CachedVersion(Left, last.stage) # None
       /\ get_result(config, CachedVersion(Left, last.stage)[1]).raised = None
       /\ last.out.value = get_result(config, CachedVersion(Left, last.stage)[1]).value

\* thread t is at a statement of get_secret_value that reads the fields
\* __refresh leaves: _is_refresh_needed, and _get_version with the raise or
\* return that follows
Observes(t) == threads[t].pc \in {"locked", "read"}

\* thread t is inside "with self._lock" of the object it refers to
InWith(t) == threads[t].pc \in ({"locked", "read"} \cup RefreshPcs)

\* the fields hold the outcome of the latest refresh attempt whole: that of
\* the n-th failure in a row, or that of a completed try block (n = 0)
Settled(e, n) ==
    /\ e.exception # None => e.next_retry_time # None
    /\ (e.exception # None) = (e.exception_count >= 1)
    /\ e.exception_count = n

\* C27: every cache object with a stored exception has a retry time, stores
\* an exception exactly when its exception counter is at least 1, and holds
\* the counter of its latest refresh attempt, in every state in which no
\* thread is between the first and the last statement of the branch of a
\* refresh of it; and while a thread is there, it owns the object's lock and
\* no other thread is at a statement that reads those fields.
C27_ExceptionHasRetryTime ==
    \A o \in DOMAIN heap :
        /\ Refreshing(o) = {} => Settled(heap[o].item, hist[o].streak)
        /\ \A t \in Refreshing(o) :
             /\ heap[o].owner = t
             /\ \A u \in Threads \ {t} : ~(Observes(u) /\ threads[u].ref = o)

\* a thread has stored the exception of a first failure and not yet the
\* retry time, while another thread waits for the lock of the object
C27_Witness ==
    \E t, u \in Threads :
        /\ threads[t].pc = "count" /\ threads[u].pc = "acquire"
        /\ threads[u].ref = threads[t].ref
        /\ heap[threads[t].ref].item.exception # None
        /\ heap[threads[t].ref].item.next_retry_time = None
        /\ heap[threads[t].ref].item.exception_count = 0

\* C28: a get_secret_value call that finds an exception stored on the item
\* calls describe_secret exactly when the item's next retry time is at or
\* before the time at which it evaluates _is_refresh_needed: before that
\* time it begins no fetch and leaves the item as it is, also when the
\* item's scheduled refresh time has passed, and also when
\* refresh_secret_now was called meanwhile (the call raises and sets no flag).
C28_BackoffWindow ==
    [][\A t \in Threads :
         (Decides(t) /\ IsItem(ItemOf(t)) /\ ItemOf(t).exception # None)
         => /\ ItemOf(t).next_retry_time # None
            /\ Fetches(t) = (ItemOf(t).next_retry_time[1] <= now)
            /\ ~Fetches(t)
               => /\ threads'[t].pc = "read"
                  /\ threads'[t].io = <<>>
                  /\ heap' = heap]_vars

\* a call inside the retry window of an item whose scheduled refresh time
\* has passed, after refresh_secret_now was called on the item: it has
\* evaluated _is_refresh_needed and made no backend call
C28_Witness ==
    \E t \in Threads :
        /\ threads[t].pc = "read" /\ threads[t].refresh = "none"
        /\ threads[t].io = <<>>
        /\ threads[t].before[1].hist.forced
        /\ ItemOf(t) = threads[t].before[1].item
        /\ ItemOf(t).exception # None
        /\ ItemOf(t).next_retry_time[1] > now
        /\ ItemOf(t).next_refresh_time < now

\* a call that found the retry window of the item closed: it is inside
\* describe_secret, the retry time of the earlier failure still on the item
C28_WitnessRetry ==
    \E t \in Threads :
        /\ threads[t].pc = "fetching"
        /\ threads[t].before[1].item.exception # None
        /\ threads[t].before[1].item.next_retry_time[1] <= now
        /\ now > 0

\* the program constructs the item in the step
Constructs == heap = <<>> /\ heap' # <<>>

\* C29: a get_secret_value call that finds no exception stored on the item
\* and the refresh_needed flag clear calls describe_secret exactly when the
\* item's next refresh time is at or before the time at which it evaluates
\* _is_refresh_needed, and otherwise leaves the item as it is; the
\* constructor sets the next refresh time to the time of construction, so
\* the first call on the item finds that time at or before its own and
\* calls describe_secret (also were the flag clear).
C29_ItemStaleness ==
    /\ [][\A t \in Threads :
            (Decides(t) /\ IsItem(ItemOf(t)) /\ ItemOf(t).exception = None)
            => /\ ~ItemOf(t).refresh_needed
                  => /\ Fetches(t) = (ItemOf(t).next_refresh_time <= now)
                     /\ ~Fetches(t) => threads'[t].pc = "read" /\ heap' = heap
               /\ ~hist[threads[t].ref].answered /\ hist[threads[t].ref].streak = 0
                  => /\ Fetches(t)
                     /\ ItemOf(t).next_refresh_time <= now
                     /\ _is_refresh_needed([ItemOf(t) EXCEPT !.refresh_needed = FALSE], now)]_vars
    /\ [][Constructs => heap'[EntryId].item.next_refresh_time = now]_vars

\* a call at the very time an earlier refresh scheduled the next one for,
\* later than the item's construction: the item stored no exception and had
\* its flag clear, and the call is inside describe_secret
C29_Witness ==
    \E t \in Threads :
        /\ threads[t].pc = "fetching"
        /\ now > 0
        /\ threads[t].before[1].item.exception = None
        /\ ~threads[t].before[1].item.refresh_needed
        /\ threads[t].before[1].item.next_refresh_time = now

\* a call before the scheduled refresh time of an item with no stored
\* exception: it has evaluated _is_refresh_needed and made no backend call
C29_WitnessEarly ==
    \E t \in Threads :
        /\ threads[t].pc = "read" /\ threads[t].refresh = "none"
        /\ threads[t].io = <<>>
        /\ ItemOf(t).exception = None
        /\ ItemOf(t).next_refresh_time > now

\* thread t executes the statement of SecretCacheItem._execute_refresh that
\* sets the next refresh time in the step
Stamps(t) == threads[t].pc = "stamp" /\ threads'[t].pc # "stamp"

\* C30: a refresh of the item whose describe_secret call succeeds sets, at
\* time t, the item's next refresh time between t plus half the refresh
\* interval and t plus the refresh interval; a get_secret_value call whose
\* refresh of the item fails leaves the next refresh time as it was.
C30_JitteredSchedule ==
    /\ [][\A t \in Threads :
            Stamps(t)
            => /\ 2 * heap'[threads[t].ref].item.next_refresh_time
                    >= 2 * now + config.opt.secret_refresh_interval * SecondMs
               /\ heap'[threads[t].ref].item.next_refresh_time
                    <= now + config.opt.secret_refresh_interval * SecondMs]_vars
    /\ []((LastItemGet /\ last.refresh = "failed")
          => Left.next_refresh_time = Found.item.next_refresh_time)

\* C32: a get_secret_value call whose refresh of the item fails leaves the
\* item's stored result, its cached versions and its next refresh time as
\* they were; the exception, the exception counter, the refresh_needed flag
\* and the next retry time are all that can differ.
C32_FailedRefreshKeepsData ==
    (LastItemGet /\ last.refresh = "failed")
    => Left = [Found.item EXCEPT
                 !.exception = Left.exception,
                 !.exception_count = Left.exception_count,
                 !.refresh_needed = Left.refresh_needed,
                 !.next_retry_time = Left.next_retry_time]

\* C24: with SecretCacheConfig(), the retry delay scheduled by the N-th
\* failed refresh in a row is min(1000 * 2^(N-1), 3600000) milliseconds:
\* 1000 after the first failure, doubled by each further one, at most 3600000.
C24_DefaultBackoff ==
    [][\A t \in Threads :
         SetsRetryTime(t)
         => \E o \in {threads[t].ref} :
              /\ heap'[o].item.next_retry_time # None
              /\ heap'[o].item.next_retry_time[1] - now
                   = Min(1000 * (2 ^ (hist[o].streak - 1)), 3600000)]_vars

\* C31: once get_secret_value of the backend has answered for a version, no
\* later call on the version calls the backend; and a call after the first
\* that does call the backend finds an exception stored on the version and
\* the retry time at or before the time of the call.
C31_VersionFetchedOnce ==
    [][\A t \in Threads :
         (Decides(t) /\ Fetches(t))
         => /\ ~hist[threads[t].ref].answered
            /\ ~ItemOf(t).refresh_needed
               => /\ ItemOf(t).exception # None
                  /\ ItemOf(t).next_retry_time # None
                  /\ ItemOf(t).next_retry_time[1] <= now]_vars

\* ------------------------------------------------------------ thread claims
\* at most one thread is inside the backend call of a refresh of each
\* object, and a thread inside the with block of an object owns its lock
Exclusive ==
    /\ \A o \in DOMAIN heap : Cardinality(Fetching(o)) <= 1
    /\ \A t \in Threads : InWith(t) => heap[threads[t].ref].owner = t

\* the step is a step of thread t and of no other thread
StepOf(t) ==
    /\ threads'[t] # threads[t]
    /\ \A u \in Threads \ {t} : threads'[u].pc = threads[u].pc

\* C16: whatever the interleaving of the threads' calls, at most one thread
\* is inside the backend fetch of an object at any moment, every thread
\* inside the with block of an object (where its fields are read and
\* written) owns its lock, and the fields of an object change only in a
\* step of the thread that owns its lock.
C16_OneFetchPerEntry ==
    [][/\ Exclusive'
       /\ \A o \in DOMAIN heap \cap DOMAIN heap' :
            heap'[o].item # heap[o].item
            => /\ heap[o].owner # NoThread
               /\ InWith(heap[o].owner)
               /\ threads[heap[o].owner].ref = o
               /\ StepOf(heap[o].owner)]_vars

\* one thread is inside describe_secret for an item whose refresh_needed
\* flag it has cleared, while another waits for the lock of the same item
C16_Witness ==
    \E t, u \in Threads :
        /\ t # u
        /\ threads[t].pc = "fetching" /\ threads[u].pc = "acquire"
        /\ threads[u].ref = threads[t].ref
        /\ threads[t].before[1].item.refresh_needed
        /\ ~ItemOf(t).refresh_needed

\* the threads inside describe_secret for the secret id s
FetchingId(s) ==
    {t \in Threads : threads[t].pc = "fetching" /\ threads[t].secret_id = s}

\* C17: whatever the interleaving of the threads' calls, calls for other ids
\* that evict items included, there are never two describe_secret calls for
\* the same secret id in flight at the same time.
C17_NoDuplicateFetchPerId ==
    \A s \in SecretIds : Cardinality(FetchingId(s)) <= 1

\* what a call returns from the metadata describe_secret last answered for
\* the item: the field of the version that carries the stage, None without one
WaitedOut ==
    IF _get_version_id(Found.hist.seen, StageOf(last.stage)) = None THEN Return(None)
    ELSE Return(Expected(Found.hist.seen[1], last.stage, FieldOf(last.op)))

\* C18: a thread that waited for the item's lock while another thread was
\* refreshing the item goes on, once it has the lock, with the state that
\* refresh left: after a successful refresh (the item not due again) it makes
\* no describe_secret call of its own and returns the fetched value (or
\* raises the error of its get_secret_value call); after a failed refresh it
\* makes no describe_secret call before the retry time.
C18_WaitingReaderReuses ==
    (LastGet /\ last.waited \in {"ok", "failed"})
    => /\ (/\ last.waited = "ok"
           /\ ~_is_refresh_needed(Found.item, last.done))
          => /\ Count(last.io, "describe_secret") = 0
             /\ last.out \in {WaitedOut, Raise(ClientError)}
       /\ (/\ last.waited = "failed"
           /\ Found.item.next_retry_time # None
           /\ last.done < Found.item.next_retry_time[1])
          => Count(last.io, "describe_secret") = 0

\* thread u waits at "with self._lock" for a lock it cannot take
Blocked(u) ==
    threads[u].pc = "acquire" /\ ~LockFree(heap, threads[u].ref, u)

\* where a thread is while it calls a method of the LRUCache of the SecretCache
LookupPcs == {"get", "put", "get2"}

\* C19: a call waits only for a thread that is inside get_secret_value of
\* the very item the call looked up, an item of the same secret id, or, at a
\* method of the LRUCache, for a thread that is inside a method of the
\* LRUCache; a thread inside describe_secret for another secret id never
\* makes it wait.
C19_OtherIdsIndependent ==
    /\ \A u \in Threads :
         Blocked(u)
         => \E t \in Threads \ {u} :
              /\ InWith(t)
              /\ threads[t].ref = threads[u].ref
              /\ threads[t].secret_id = threads[u].secret_id
    /\ callers.lock # NoThread => threads[callers.lock].pc \in LookupPcs

\* a call for one secret id began, made its own describe_secret call and
\* ended, all while another thread stayed inside describe_secret for
\* another secret id, the cache holding the items of both
C19_Witness ==
    \E t \in Threads :
        /\ IsGet(last.op) /\ last.held
        /\ Count(last.io, "describe_secret") = 1
        /\ t \in last.during
        /\ threads[t].pc = "fetching"
        /\ threads[t].secret_id # last.secret_id
        /\ HeldAs(cache, threads[t].secret_id, threads[t].ref)

C34_OneItemPerId ==
    [][/\ \A k \in DOMAIN cache.cache \cap DOMAIN cache'.cache :
            cache'.cache[k] = cache.cache[k]
       /\ \A k \in DOMAIN cache'.cache :
            /\ cache'.cache[k] \in DOMAIN heap'
            /\ heap'[cache'.cache[k]].secret_id = k
       /\ \A t \in Threads :
            (/\ threads'[t].ref # NoRef
             /\ \E k \in DOMAIN cache'.cache : cache'.cache[k] = threads'[t].ref)
            => /\ threads'[t].secret_id \in DOMAIN cache'.cache
               /\ cache'.cache[threads'[t].secret_id] = threads'[t].ref]_vars

\* both threads found no item for the same secret id; one has inserted the
\* item it constructed and refers to it, the other is about to call
\* put_if_absent with the item it constructed; the cache holds the item of
\* the other secret id as well
C34_Witness ==
    \E t, u \in Threads :
        /\ t # u
        /\ threads[t].pc = "put" /\ threads[t].new # None
        /\ threads[u].secret_id = threads[t].secret_id
        /\ threads[u].ref # NoRef
        /\ HeldAs(cache, threads[t].secret_id, threads[u].ref)
        /\ cache.size = 2

\* C35: whatever the configured max_cache_size and whatever the other
\* threads insert meanwhile, the lookup of a call obtains an item: no call
\* ends because the second get of _get_cached_secret returned None.
C35_LookupYieldsItem ==
    last.out \notin {Raise(AttributeErrorNoItem), Raise(AttributeErrorNoRefresh)}

\* thread t is inside a call
Busy(t) == threads[t].pc # "idle"

\* thread t can take the next step of its call: the lock it is about to
\* take, if any, is free
CanStep(t) ==
    /\ Busy(t)
    /\ threads[t].pc \in LookupPcs => callers.lock \in {NoThread, t}
    /\ threads[t].pc = "acquire" => LockFree(heap, threads[t].ref, t)

\* while any call is in progress, some thread can take the next step of its
\* call
NoDeadlock == (\E t \in Threads : Busy(t)) => \E t \in Threads : CanStep(t)

Invocation == inject.last

\* what the last cache the call probed did
LastCode == Invocation.codes[Len(Invocation.codes)]
LastProbed == Invocation.probed[Len(Invocation.probed)]

\* the probes of the call: the caches start, start+1, ... wrapping around,
\* each at most once; every cache before the last probed one raised
\* InternalFailure or ServiceUnavailable; such an error of the last probed
\* cache is raised only when every cache was probed; any other error is
\* raised at once; an answer is returned
Probes(start) ==
    /\ Len(Invocation.probed) \in 1..inject.d.n
    /\ Len(Invocation.codes) = Len(Invocation.probed)
    /\ \A j \in 1..Len(Invocation.probed) : Invocation.probed[j] = (start + j - 1) % inject.d.n
    /\ \A j \in 1..(Len(Invocation.codes) - 1) : Invocation.codes[j] \in RetryableCodes
    /\ LastCode = "ok" => Invocation.out = Return(SecretOf(LastProbed))
    /\ LastCode \in RetryableCodes
       => /\ Len(Invocation.probed) = inject.d.n
          /\ Invocation.out = RaisedBy(LastCode, LastProbed)
    /\ LastCode \notin RetryableCodes \cup {"ok"}
       => Invocation.out = RaisedBy(LastCode, LastProbed)

C39_WitnessAllFail ==
    /\ Invocation.called
    /\ inject.d.n = 3
    /\ Invocation.start = 2
    /\ Invocation.probed = <<2, 0, 1>>
    /\ Invocation.out = RaisedBy("ServiceUnavailable", 1)
    /\ inject.d.cache_id = 2

\* a call that was answered stored its index after a call that was answered
\* later had stored its own
C39_WitnessOverlap ==
    /\ Invocation.called /\ Invocation.overlapped
    /\ Invocation.out.kind = "return"
    /\ inject.d.cache_id = LastProbed
    /\ inject.d.cache_id # inject.succeeded

\* ------------------------------------------ configuration and LRU claims
\* the option names the specification recognizes
RecognizedOptions == OptionNames \cup {"secret_cache_hook"}

\* C23: SecretCacheConfig(**kwargs) succeeds exactly when every name given
\* is a recognized option (those of OPTION_DEFAULTS and secret_cache_hook);
\* with any other name it raises and produces no configuration object.
C23_OptionNames ==
    built # <<>>
    => /\ (built.result.raised = "") = (DOMAIN built.kwargs \subseteq RecognizedOptions)
       /\ built.result.raised # "" => built.result.attrs = None

\* C25: after every completed get or put_if_absent the key map and the linked
\* list hold the same entries (every mapped key is met exactly once from the
\* head, every node met is mapped), the size counter is the number of mapped
\* keys, head.prev and tail.next are None, the list has no cycle and following
\* next from the head ends at the tail.
C25_LRUStructure == WellFormed(lru)

\* a full cache of two entries after a get moved the tail to the head and a
\* put_if_absent evicted
C25_Witness ==
    /\ lru.size = 2 /\ lru.max_size = 2
    /\ lru_last.op = "put" /\ Mapped(lru_last.pre) \ Mapped(lru) # {}
    /\ lru_last.prev_op = "get" /\ lru_last.prev_hit
    /\ Len(Chain(lru)) = 2

\* C26: under any interleaving of get and put_if_absent calls by several
\* threads, the calls behave as if made one at a time in the order in which
\* they took the lock: whenever no thread is inside a method body the cache
\* (contents, links, order, size) is the one that sequential execution gives,
\* every finished call returned what it returns in that execution, and every
\* thread that entered a method body found the map and the list in agreement.
C26_LRUAtomic ==
    /\ (\A t \in Threads : callers.th[t].pc \in {"idle", "wait"}) => lru = callers.ref
    /\ \A t \in Threads :
         /\ callers.th[t].agreed
         /\ callers.th[t].saw

\* a thread waits for the lock while another is between the dict insertion and
\* the linking of put_if_absent, the map and the list in disagreement
C26_Witness ==
    \E t, u \in Threads :
        /\ t # u
        /\ callers.th[t].pc = "head" /\ callers.th[t].op = "put"
        /\ ~WellFormed(lru)
        /\ callers.th[u].pc = "wait"
        /\ callers.th[u].key = callers.th[t].key
====
